---- MODULE Spec2Model ----
(***************************************************************************)
(* Model of the live transcription session handler, handleWebSocket        *)
(* (src/websocket.go), with the process-wide keyword state of              *)
(* src/speech.go.  One session is modelled in full: the handler (client    *)
(* read loop), the result pump, the age monitor, the summarization tasks   *)
(* and the status notifiers.  The recognition service, the text generation *)
(* service, the client and the other sessions of the same process are the  *)
(* environment: they act nondeterministically, within the budgets of env.  *)
(***************************************************************************)
EXTENDS Integers, Sequences, FiniteSets, TLC

(* ------------------------------------------------------------------ *)
(* Bounds of the model (not program constants).                        *)
(* ------------------------------------------------------------------ *)
MaxChunks == 2
MaxChunksBuffer == 11
MaxChunksTranscript == 1
MaxChunksRecover == 1
MaxResponses == 2
MaxResponsesDrain == 1
MaxFaults == 2
MaxFaultsBuffer == 1
MaxAges == 1
MaxKeywordMsgs == 1
MaxKeywordMsgsDedup == 3
MaxEndPrompts == 2
MaxEndPromptsFinal == 1
MaxOtherSessions == 1
MaxOtherMsgs == 1
MaxStreams == 4

(* ------------------------------------------------------------------ *)
(* Program constants.                                                   *)
(* ------------------------------------------------------------------ *)
\* len(pendingAudioChunks) > 10 : the capacity of the pending audio buffer
MaxPendingChunks == 10
\* Boost of the speech contexts
CustomWordsBoost == 10
DynamicBoost == 15

\* the nil stream / no task
Nil == 0

(* ------------------------------------------------------------------ *)
(* Strings of the keyword path: a word is a sequence of characters, so *)
(* that strings.TrimSpace and strings.ToLower are computed.            *)
(* ------------------------------------------------------------------ *)
LowerChar(c) == CASE c = "K" -> "k"
                  [] c = "Q" -> "q"
                  [] OTHER -> c

ToLower(w) == [i \in DOMAIN w |-> LowerChar(w[i])]

RECURSIVE TrimLeft(_)
TrimLeft(w) == IF w # <<>> /\ Head(w) = " " THEN TrimLeft(Tail(w)) ELSE w

RECURSIVE TrimRight(_)
TrimRight(w) ==
    IF w # <<>> /\ w[Len(w)] = " " THEN TrimRight(SubSeq(w, 1, Len(w) - 1)) ELSE w

TrimSpace(w) == TrimRight(TrimLeft(w))

\* the key of the existingKeywords map
KeywordKey(w) == ToLower(TrimSpace(w))

RECURSIVE SeqToSet(_)
SeqToSet(s) == IF s = <<>> THEN {} ELSE {Head(s)} \cup SeqToSet(Tail(s))

RECURSIVE SelectSeqTrimmed(_)
\* the phrases kept by createSpeechContexts / createDynamicSpeechContexts:
\* each word trimmed, the empty ones left out
SelectSeqTrimmed(ws) ==
    IF ws = <<>> THEN <<>>
    ELSE IF TrimSpace(Head(ws)) # <<>>
         THEN <<TrimSpace(Head(ws))>> \o SelectSeqTrimmed(Tail(ws))
         ELSE SelectSeqTrimmed(Tail(ws))

createSpeechContexts(customWords) ==
    IF Len(customWords) = 0 THEN <<>>
    ELSE IF SelectSeqTrimmed(customWords) = <<>> THEN <<>>
    ELSE << [phrases |-> SelectSeqTrimmed(customWords), boost |-> CustomWordsBoost] >>

\* classes are never supplied by the modelled client (classesConfig = nil)
createAdvancedSpeechContexts(customWords, phraseSets) ==
    (IF Len(customWords) > 0 THEN createSpeechContexts(customWords) ELSE <<>>)
    \o (IF Len(phraseSets) > 0 /\ SelectSeqTrimmed(phraseSets) # <<>>
        THEN << [phrases |-> SelectSeqTrimmed(phraseSets), boost |-> CustomWordsBoost] >>
        ELSE <<>>)

createDynamicSpeechContexts(originalContexts, newKeywords) ==
    IF Len(newKeywords) = 0 THEN originalContexts
    ELSE IF SelectSeqTrimmed(newKeywords) # <<>>
         THEN originalContexts
              \o << [phrases |-> SelectSeqTrimmed(newKeywords), boost |-> DynamicBoost] >>
         ELSE originalContexts

(* ------------------------------------------------------------------ *)
(* State.                                                               *)
(* ------------------------------------------------------------------ *)
VARIABLES
    \* the handler (client read loop) and what it captured
    mainPc,                 \* position of handleWebSocket
    exitPath,               \* the statement by which the handler left ("" while it runs)
    customWords,            \* config.CustomWords
    speechContexts,         \* the session's original speech contexts
    gcp,                    \* projectID != "" && location != ""
    ctxCancelled,           \* ctx.Err() != nil
    connOpen,               \* conn not yet closed by the handler
    audioChunkCount,        \* number of the audio frame being handled
    mainStream,             \* the handler's local currentStream
    keywordsMsg,            \* keywordsMsg.Words of the last keywords message
    acceptedKeywords,       \* the keys of the words this session's messages added
    \* process-wide state of speech.go (shared by all sessions)
    dynamicKeywords,
    currentSpeechContexts,
    \* the stream slot
    stream,                 \* the current stream (index into streams) or Nil
    streamMu,               \* holder of streamMu, or "free"
    streams,                \* every upstream stream opened by this session
    pendingAudioChunks,
    streamOld,              \* time.Since(streamStartTime) >= maxStreamDuration
    csPc, csNew, csUpd,     \* createStream, per caller: position, newStream, updatedContexts
    \* the result pump
    pumpPc, pumpStream, pumpIdx,
    readLog,                \* the responses Recv returned to the pump, in order
    fullTranscription,
    \* the age monitor
    monitorPc,
    \* the client connection
    mu,                     \* holder of mu, or "free"
    clientLog,              \* the messages written to the client, in order
    statusPending,          \* status notifier goroutines not yet run
    writeDeadline,          \* the connection has a write deadline (lines 776, 792)
    \* summarization
    tasks, currentSummary, finalSummaryInProgress,
    drainWaited,            \* how the drain wait ended ("" when not entered)
    tasksAtDisconnect,      \* end-of-session tasks running when ReadMessage failed
    \* budgets of the environment
    env

vars == << mainPc, exitPath, customWords, speechContexts, gcp, ctxCancelled, connOpen,
           audioChunkCount, mainStream, keywordsMsg, acceptedKeywords,
           dynamicKeywords, currentSpeechContexts,
           stream, streamMu, streams, pendingAudioChunks, streamOld, csPc, csNew, csUpd,
           pumpPc, pumpStream, pumpIdx, readLog, fullTranscription, monitorPc,
           mu, clientLog, statusPending, writeDeadline, tasks, currentSummary,
           finalSummaryInProgress,
           drainWaited, tasksAtDisconnect, env >>

mainVars == << mainPc, exitPath, customWords, speechContexts, gcp, ctxCancelled, connOpen,
               audioChunkCount, mainStream >>
keywordVars == << dynamicKeywords, currentSpeechContexts, keywordsMsg, acceptedKeywords >>
slotVars == << stream, streamMu, streams, pendingAudioChunks, streamOld >>
csVars == << csPc, csNew, csUpd >>
pumpVars == << pumpPc, pumpStream, pumpIdx, readLog, fullTranscription >>
connVars == << mu, clientLog, statusPending, writeDeadline >>
summaryVars == << tasks, currentSummary, finalSummaryInProgress >>
drainVars == << drainWaited, tasksAtDisconnect >>

\* the tasks that call createStream
Callers == {"main", "pump", "monitor"}

NoContexts == [some |-> FALSE, ctxs |-> <<>>]
NoSummary == [task |-> Nil, snap |-> <<>>]

\* the state when the connection has been upgraded, for an environment e
InitWith(e) ==
    /\ mainPc = "handshake" /\ exitPath = ""
    /\ customWords = <<>> /\ speechContexts = <<>> /\ gcp = FALSE
    /\ ctxCancelled = FALSE /\ connOpen = TRUE
    /\ audioChunkCount = 0 /\ mainStream = Nil
    /\ dynamicKeywords = <<>> /\ currentSpeechContexts = <<>>
    /\ keywordsMsg = <<>> /\ acceptedKeywords = {}
    /\ stream = Nil /\ streamMu = "free" /\ streams = <<>>
    /\ pendingAudioChunks = <<>> /\ streamOld = FALSE
    /\ csPc = [p \in Callers |-> "idle"]
    /\ csNew = [p \in Callers |-> Nil]
    /\ csUpd = [p \in Callers |-> NoContexts]
    /\ pumpPc = "off" /\ pumpStream = Nil /\ pumpIdx = 0
    /\ readLog = <<>> /\ fullTranscription = <<>>
    /\ monitorPc = "off"
    /\ mu = "free" /\ clientLog = <<>> /\ statusPending = 0 /\ writeDeadline = FALSE
    /\ tasks = <<>> /\ currentSummary = NoSummary /\ finalSummaryInProgress = 0
    /\ drainWaited = "" /\ tasksAtDisconnect = {}
    /\ env = e

(* ------------------------------------------------------------------ *)
(* The recognition service, as the session sees it.                     *)
(* ------------------------------------------------------------------ *)
\* a stream just returned by client.StreamingRecognize
NewStream == [handshaken |-> FALSE, closed |-> FALSE, hints |-> <<>>, sent |-> <<>>]

\* stream.CloseSend()
CloseSend(strs, s) == IF s = Nil THEN strs ELSE [strs EXCEPT ![s].closed = TRUE]

\* An upstream call can fail of itself (a fault of the budget) and fails
\* when the session's context is cancelled; a Send also fails on a stream
\* that was closed for writing.
UpstreamMayFail == env.faults > 0 \/ ctxCancelled
SendMayFail(s) == UpstreamMayFail \/ streams[s].closed
\* the budget after a failure on stream s (Nil: no stream involved)
AfterFailure(s) ==
    IF ctxCancelled \/ (s # Nil /\ streams[s].closed) THEN env
    ELSE [env EXCEPT !.faults = @ - 1]

(* ------------------------------------------------------------------ *)
(* createStream (ensureStream), called by p.  streamMu is held from     *)
(* CsEnter to the return.                                               *)
(* ------------------------------------------------------------------ *)
\* CsEnter without stream.CloseSend()
CsEnterNoClose(p) ==
    /\ csPc[p] = "enter" /\ streamMu = "free"
    /\ stream' = Nil
    /\ IF ctxCancelled
       THEN /\ csPc' = [csPc EXCEPT ![p] = "retErr"]
            /\ streamMu' = "free"
       ELSE /\ csPc' = [csPc EXCEPT ![p] = "open"]
            /\ streamMu' = p
    /\ UNCHANGED << mainVars, keywordVars, streams, pendingAudioChunks, streamOld, csNew,
                    csUpd, pumpVars, monitorPc, connVars, summaryVars, drainVars, env >>

\* lines 294-306: lock, close and drop the existing stream, check ctx
CsEnter(p) ==
    /\ csPc[p] = "enter" /\ streamMu = "free"
    /\ streams' = CloseSend(streams, stream)
    /\ stream' = Nil
    /\ IF ctxCancelled
       THEN /\ csPc' = [csPc EXCEPT ![p] = "retErr"]
            /\ streamMu' = "free"
       ELSE /\ csPc' = [csPc EXCEPT ![p] = "open"]
            /\ streamMu' = p
    /\ UNCHANGED << mainVars, keywordVars, pendingAudioChunks, streamOld, csNew, csUpd,
                    pumpVars, monitorPc, connVars, summaryVars, drainVars, env >>

\* CsOpen for a createStream that drops the buffered frames when
\* StreamingRecognize fails
CsOpenFailClears(p) ==
    /\ csPc[p] = "open"
    /\ \/ /\ Len(streams) < MaxStreams
          /\ streams' = Append(streams, NewStream)
          /\ csNew' = [csNew EXCEPT ![p] = Len(streams) + 1]
          /\ csPc' = [csPc EXCEPT ![p] = "handshake"]
          /\ UNCHANGED << streamMu, env, pendingAudioChunks >>
       \/ /\ UpstreamMayFail \/ Len(streams) >= MaxStreams
          /\ csPc' = [csPc EXCEPT ![p] = "retErr"]
          /\ streamMu' = "free"
          /\ pendingAudioChunks' = <<>>
          /\ env' = IF Len(streams) >= MaxStreams THEN env ELSE AfterFailure(Nil)
          /\ UNCHANGED << streams, csNew >>
    /\ UNCHANGED << mainVars, keywordVars, stream, streamOld, csUpd,
                    pumpVars, monitorPc, connVars, summaryVars, drainVars >>

\* lines 308-312: client.StreamingRecognize(ctx)
CsOpen(p) ==
    /\ csPc[p] = "open"
    /\ \/ /\ Len(streams) < MaxStreams
          /\ streams' = Append(streams, NewStream)
          /\ csNew' = [csNew EXCEPT ![p] = Len(streams) + 1]
          /\ csPc' = [csPc EXCEPT ![p] = "handshake"]
          /\ UNCHANGED << streamMu, env >>
       \/ /\ UpstreamMayFail \/ Len(streams) >= MaxStreams
          /\ csPc' = [csPc EXCEPT ![p] = "retErr"]
          /\ streamMu' = "free"
          /\ env' = IF Len(streams) >= MaxStreams THEN env ELSE AfterFailure(Nil)
          /\ UNCHANGED << streams, csNew >>
    /\ UNCHANGED << mainVars, keywordVars, stream, pendingAudioChunks, streamOld, csUpd,
                    pumpVars, monitorPc, connVars, summaryVars, drainVars >>

\* lines 322-336: the speech contexts of the configuration message
contextsToUse(p) == IF csUpd[p].some THEN csUpd[p].ctxs ELSE speechContexts

\* CsHandshake with the error of newStream.Send ignored
CsHandshakeUnchecked(p) ==
    /\ csPc[p] = "handshake"
    /\ \/ /\ streams' = [streams EXCEPT ![csNew[p]].handshaken = TRUE,
                                        ![csNew[p]].hints = contextsToUse(p)]
          /\ UNCHANGED env
       \/ /\ UpstreamMayFail
          /\ env' = AfterFailure(Nil)
          /\ UNCHANGED streams
    /\ csPc' = [csPc EXCEPT ![p] = "commit"]
    /\ UNCHANGED << mainVars, keywordVars, stream, streamMu, pendingAudioChunks, streamOld,
                    csNew, csUpd, pumpVars, monitorPc, connVars, summaryVars, drainVars >>

\* lines 314-351: build the configuration and send it on newStream
CsHandshake(p) ==
    /\ csPc[p] = "handshake"
    /\ \/ /\ streams' = [streams EXCEPT ![csNew[p]].handshaken = TRUE,
                                        ![csNew[p]].hints = contextsToUse(p)]
          /\ csPc' = [csPc EXCEPT ![p] = "commit"]
          /\ UNCHANGED << streamMu, env >>
       \/ /\ UpstreamMayFail
          /\ csPc' = [csPc EXCEPT ![p] = "retErr"]
          /\ streamMu' = "free"
          /\ env' = AfterFailure(Nil)
          /\ UNCHANGED streams
    /\ UNCHANGED << mainVars, keywordVars, stream, pendingAudioChunks, streamOld, csNew,
                    csUpd, pumpVars, monitorPc, connVars, summaryVars, drainVars >>

\* CsCommit for a createStream that keeps the frames it could not send
CsCommitKeepsRest(p) ==
    /\ csPc[p] = "commit"
    /\ stream' = csNew[p]
    /\ streamOld' = FALSE
    /\ \E n \in 0..Len(pendingAudioChunks) :
          /\ n < Len(pendingAudioChunks) => UpstreamMayFail
          /\ streams' = [streams EXCEPT ![csNew[p]].sent =
                                            @ \o SubSeq(pendingAudioChunks, 1, n)]
          /\ env' = IF n < Len(pendingAudioChunks) THEN AfterFailure(Nil) ELSE env
          /\ pendingAudioChunks' = SubSeq(pendingAudioChunks, n + 1,
                                           Len(pendingAudioChunks))
    /\ statusPending' = statusPending + 1
    /\ streamMu' = "free"
    /\ csPc' = [csPc EXCEPT ![p] = "retOk"]
    /\ UNCHANGED << mainVars, keywordVars, csNew, csUpd, pumpVars, monitorPc,
                    mu, clientLog, writeDeadline, summaryVars, drainVars >>

\* lines 353-391: record the stream as current, reset the age, flush the
\* buffer (n frames are sent before a Send fails, or all), clear it, spawn
\* the status notifier, unlock
CsCommit(p) ==
    /\ csPc[p] = "commit"
    /\ stream' = csNew[p]
    /\ streamOld' = FALSE
    /\ \E n \in 0..Len(pendingAudioChunks) :
          /\ n < Len(pendingAudioChunks) => UpstreamMayFail
          /\ streams' = [streams EXCEPT ![csNew[p]].sent =
                                            @ \o SubSeq(pendingAudioChunks, 1, n)]
          /\ env' = IF n < Len(pendingAudioChunks) THEN AfterFailure(Nil) ELSE env
    /\ pendingAudioChunks' = <<>>
    /\ statusPending' = statusPending + 1
    /\ streamMu' = "free"
    /\ csPc' = [csPc EXCEPT ![p] = "retOk"]
    /\ UNCHANGED << mainVars, keywordVars, csNew, csUpd, pumpVars, monitorPc,
                    mu, clientLog, writeDeadline, summaryVars, drainVars >>

\* the call createStream(upd) by p
Call(p, upd) ==
    /\ csPc' = [csPc EXCEPT ![p] = "enter"]
    /\ csUpd' = [csUpd EXCEPT ![p] = upd]
    /\ csNew' = [csNew EXCEPT ![p] = Nil]

\* p takes the result of its createStream call
Returned(p) == csPc[p] \in {"retOk", "retErr"}
TakeReturn(p) ==
    /\ csPc' = [csPc EXCEPT ![p] = "idle"]
    /\ csNew' = [csNew EXCEPT ![p] = Nil]
    /\ csUpd' = [csUpd EXCEPT ![p] = NoContexts]

(* ------------------------------------------------------------------ *)
(* The handler: handshake and start of the session.                     *)
(* ------------------------------------------------------------------ *)
\* the handler returns by the statement `path`
ReturnBy(path) == mainPc' = "return" /\ exitPath' = path

\* a handshake whose failure resets the stored contexts and keywords
MainHandshakeResets ==
    /\ mainPc = "handshake"
    /\ \/ /\ ReturnBy("handshake")
          /\ ctxCancelled' = TRUE
          /\ dynamicKeywords' = <<>> /\ currentSpeechContexts' = <<>>
          /\ UNCHANGED << customWords, gcp >>
       \/ \E cw \in env.customWordChoices, g \in env.gcpChoices :
             /\ customWords' = cw
             /\ gcp' = g
             /\ mainPc' = "newClient"
             /\ UNCHANGED << exitPath, ctxCancelled, dynamicKeywords,
                             currentSpeechContexts >>
    /\ UNCHANGED << speechContexts, connOpen, audioChunkCount, mainStream, keywordsMsg,
                    acceptedKeywords, slotVars, csVars, pumpVars, monitorPc, connVars,
                    summaryVars, drainVars, env >>

\* lines 44-57: read and parse the initial configuration message
MainHandshake ==
    /\ mainPc = "handshake"
    /\ \/ \* ReadMessage or json.Unmarshal fails: cancel() and return
          /\ ReturnBy("handshake")
          /\ ctxCancelled' = TRUE
          /\ UNCHANGED << customWords, gcp >>
       \/ \E cw \in env.customWordChoices, g \in env.gcpChoices :
             /\ customWords' = cw
             /\ gcp' = g
             /\ mainPc' = "newClient"
             /\ UNCHANGED << exitPath, ctxCancelled >>
    /\ UNCHANGED << speechContexts, connOpen, audioChunkCount, mainStream, keywordVars,
                    slotVars, csVars, pumpVars, monitorPc, connVars, summaryVars,
                    drainVars, env >>

\* lines 170-191 and 394: create the speech client, build the contexts,
\* store them and the custom words in the process-wide variables, call
\* createStream(nil)
MainNewClient ==
    /\ mainPc = "newClient"
    /\ \/ /\ env.faults > 0
          /\ env' = [env EXCEPT !.faults = @ - 1]
          /\ ReturnBy("client")
          /\ UNCHANGED << speechContexts, keywordVars, csVars >>
       \/ /\ \E ps \in env.phraseSetChoices :
                /\ speechContexts' = createAdvancedSpeechContexts(customWords, ps)
                /\ currentSpeechContexts' = createAdvancedSpeechContexts(customWords, ps)
          /\ dynamicKeywords' = customWords
          /\ Call("main", NoContexts)
          /\ mainPc' = "initStream"
          /\ UNCHANGED << exitPath, env >>
    /\ UNCHANGED << keywordsMsg, acceptedKeywords >>
    /\ UNCHANGED << customWords, gcp, ctxCancelled, connOpen, audioChunkCount, mainStream,
                    slotVars, pumpVars, monitorPc, connVars, summaryVars, drainVars >>

\* lines 394-397, 423, 559: the initial stream; then the pump and the
\* monitor are started
MainInitialStream ==
    /\ mainPc = "initStream" /\ Returned("main")
    /\ TakeReturn("main")
    /\ IF csPc["main"] = "retErr"
       THEN /\ ReturnBy("initStream")
            /\ UNCHANGED << pumpPc, monitorPc >>
       ELSE /\ mainPc' = "read"
            /\ pumpPc' = "get"
            /\ monitorPc' = "wait"
            /\ UNCHANGED exitPath
    /\ UNCHANGED << customWords, speechContexts, gcp, ctxCancelled, connOpen,
                    audioChunkCount, mainStream, keywordVars, slotVars,
                    pumpStream, pumpIdx, readLog, fullTranscription,
                    connVars, summaryVars, drainVars, env >>

(* ------------------------------------------------------------------ *)
(* The handler: audio ingestion.                                         *)
(* ------------------------------------------------------------------ *)
\* BufferChunk keeping the first frames: the newest is the one dropped
BufferChunkDropNewest(buf, m) ==
    IF Len(Append(buf, m)) > MaxPendingChunks THEN buf ELSE Append(buf, m)

\* lines 643-647 and 660-664: append, then drop the oldest above capacity
BufferChunk(buf, m) ==
    IF Len(Append(buf, m)) > MaxPendingChunks THEN Tail(Append(buf, m))
    ELSE Append(buf, m)

\* lines 596, 620-624: ReadMessage returns a binary message
MainReadAudio ==
    /\ mainPc = "read" /\ env.chunks > 0
    /\ env' = [env EXCEPT !.chunks = @ - 1]
    /\ audioChunkCount' = audioChunkCount + 1
    /\ mainPc' = "audioGet"
    /\ UNCHANGED << exitPath, customWords, speechContexts, gcp, ctxCancelled, connOpen,
                    mainStream, keywordVars, slotVars, csVars, pumpVars, monitorPc,
                    connVars, summaryVars, drainVars >>

\* lines 627-631: read the slot under streamMu
MainAudioGet ==
    /\ mainPc = "audioGet" /\ streamMu = "free"
    /\ mainStream' = stream
    /\ mainPc' = IF stream # Nil THEN "audioSend" ELSE "audioBufNil"
    /\ UNCHANGED << exitPath, customWords, speechContexts, gcp, ctxCancelled, connOpen,
                    audioChunkCount, keywordVars, slotVars, csVars, pumpVars, monitorPc,
                    connVars, summaryVars, drainVars, env >>

\* lines 632-639: currentStream.Send of the frame
MainAudioSend ==
    /\ mainPc = "audioSend"
    /\ \/ /\ ~streams[mainStream].closed
          /\ streams' = [streams EXCEPT ![mainStream].sent = Append(@, audioChunkCount)]
          /\ mainPc' = "read" /\ mainStream' = Nil
          /\ UNCHANGED env
       \/ /\ SendMayFail(mainStream)
          /\ env' = AfterFailure(mainStream)
          /\ mainPc' = "audioBufFail"
          /\ UNCHANGED << streams, mainStream >>
    /\ UNCHANGED << exitPath, customWords, speechContexts, gcp, ctxCancelled, connOpen,
                    audioChunkCount, keywordVars, stream, streamMu,
                    pendingAudioChunks, streamOld, csVars, pumpVars, monitorPc,
                    connVars, summaryVars, drainVars >>

\* lines 657-667: the slot was empty: buffer the frame
MainAudioBufferNil ==
    /\ mainPc = "audioBufNil" /\ streamMu = "free"
    /\ pendingAudioChunks' = BufferChunk(pendingAudioChunks, audioChunkCount)
    /\ mainPc' = "read"
    /\ UNCHANGED << exitPath, customWords, speechContexts, gcp, ctxCancelled, connOpen,
                    audioChunkCount, mainStream, keywordVars, stream, streamMu, streams,
                    streamOld, csVars, pumpVars, monitorPc, connVars, summaryVars,
                    drainVars, env >>

\* lines 641-651: the Send failed: buffer the frame, call createStream(nil)
MainAudioBufferFail ==
    /\ mainPc = "audioBufFail" /\ streamMu = "free"
    /\ pendingAudioChunks' = BufferChunk(pendingAudioChunks, audioChunkCount)
    /\ Call("main", NoContexts)
    /\ mainPc' = "audioRecreate" /\ mainStream' = Nil
    /\ UNCHANGED << exitPath, customWords, speechContexts, gcp, ctxCancelled, connOpen,
                    audioChunkCount, keywordVars, stream, streamMu, streams,
                    streamOld, pumpVars, monitorPc, connVars, summaryVars,
                    drainVars, env >>

\* lines 651-655: the recreation after a send error returned
MainAudioRecreated ==
    /\ mainPc = "audioRecreate" /\ Returned("main")
    /\ TakeReturn("main")
    /\ IF csPc["main"] = "retErr"
       THEN ReturnBy("sendError")
       ELSE mainPc' = "read" /\ UNCHANGED exitPath
    /\ UNCHANGED << customWords, speechContexts, gcp, ctxCancelled, connOpen,
                    audioChunkCount, mainStream, keywordVars, slotVars, pumpVars,
                    monitorPc, connVars, summaryVars, drainVars, env >>

(* ------------------------------------------------------------------ *)
(* The handler: keywords messages.                                       *)
(* ------------------------------------------------------------------ *)
\* lines 838-841: the keys of the existingKeywords map
ExistingKeys(dyn) == {KeywordKey(dyn[i]) : i \in DOMAIN dyn}

RECURSIVE MergeKeywords(_, _)
\* lines 843-851: the loop over keywordsMsg.Words; the result holds the
\* new dynamicKeywords and newKeywordsToAdd
MergeKeywords(dyn, words) ==
    IF words = <<>> THEN [dyn |-> dyn, added |-> <<>>]
    ELSE IF TrimSpace(Head(words)) # <<>>
            /\ ToLower(TrimSpace(Head(words))) \notin ExistingKeys(dyn)
         THEN [dyn |-> MergeKeywords(Append(dyn, TrimSpace(Head(words))), Tail(words)).dyn,
               added |-> <<TrimSpace(Head(words))>>
                         \o MergeKeywords(Append(dyn, TrimSpace(Head(words))),
                                          Tail(words)).added]
         ELSE MergeKeywords(dyn, Tail(words))

\* lines 802-883: a keywords message: merge the words into the process-wide
\* list, recompute the contexts, and call createStream(updatedContexts)
\* when a word was added
MainReadKeywords ==
    /\ mainPc = "read" /\ env.keywordMsgs > 0
    /\ env' = [env EXCEPT !.keywordMsgs = @ - 1]
    /\ \E words \in env.keywordChoices :
          /\ keywordsMsg' = words
          /\ acceptedKeywords' = acceptedKeywords
                \cup {ToLower(w) : w \in SeqToSet(MergeKeywords(dynamicKeywords, words).added)}
          /\ dynamicKeywords' = MergeKeywords(dynamicKeywords, words).dyn
          /\ IF Len(MergeKeywords(dynamicKeywords, words).added) > 0
             THEN /\ Call("main",
                          [some |-> TRUE,
                           ctxs |-> createDynamicSpeechContexts(
                                        currentSpeechContexts,
                                        MergeKeywords(dynamicKeywords, words).dyn)])
                  /\ mainPc' = "kwRecreate"
             ELSE /\ mainPc' = "read"
                  /\ UNCHANGED csVars
    /\ UNCHANGED << exitPath, customWords, speechContexts, gcp, ctxCancelled, connOpen,
                    audioChunkCount, mainStream, currentSpeechContexts, slotVars,
                    pumpVars, monitorPc, connVars, summaryVars, drainVars >>

\* lines 870-878: the recreation returned; a failure is only logged
MainKeywordsRecreated ==
    /\ mainPc = "kwRecreate" /\ Returned("main")
    /\ TakeReturn("main")
    /\ mainPc' = "read"
    /\ UNCHANGED << exitPath, customWords, speechContexts, gcp, ctxCancelled, connOpen,
                    audioChunkCount, mainStream, keywordVars, slotVars, pumpVars,
                    monitorPc, connVars, summaryVars, drainVars, env >>

\* text messages that are not a well-formed keywords or end_prompt message:
\* parses tells whether the type can be read (line 677), body whether the
\* message unmarshals into the structure of its type
OtherMessages ==
    {[parses |-> FALSE, type |-> "", body |-> FALSE],
     [parses |-> TRUE, type |-> "config", body |-> TRUE],
     [parses |-> TRUE, type |-> "config", body |-> FALSE],
     [parses |-> TRUE, type |-> "ping", body |-> TRUE],
     [parses |-> TRUE, type |-> "", body |-> TRUE],
     [parses |-> TRUE, type |-> "keywords", body |-> FALSE],
     [parses |-> TRUE, type |-> "end_prompt", body |-> FALSE]}

\* lines 677-700, 808-815, 884-886: what the switch does with the message m
Dispatch(m) ==
    IF ~m.parses THEN "continue"
    ELSE IF m.type = "config" THEN (IF m.body THEN "logConfig" ELSE "ignore")
    ELSE IF m.type \in {"keywords", "end_prompt"} THEN "continue"
    ELSE "logUnknown"

\* a mid-session config message that is applied: the contexts and custom
\* words of the session are replaced by those of the message
MainReadOtherApplies ==
    /\ mainPc = "read" /\ env.otherMsgs > 0
    /\ env' = [env EXCEPT !.otherMsgs = @ - 1]
    /\ \E m \in OtherMessages :
          IF Dispatch(m) = "logConfig"
          THEN customWords' = <<>> /\ speechContexts' = <<>>
          ELSE UNCHANGED << customWords, speechContexts >>
    /\ UNCHANGED << mainPc, exitPath, gcp, ctxCancelled, connOpen, audioChunkCount,
                    mainStream, keywordVars, slotVars, csVars, pumpVars, monitorPc,
                    connVars, summaryVars, drainVars >>

\* lines 670-688 and 884-886: a text message whose type cannot be read, a
\* config message, a message of unknown type, or a keywords or end_prompt
\* message that does not unmarshal: it is logged and the loop goes on
MainReadOther ==
    /\ mainPc = "read" /\ env.otherMsgs > 0
    /\ env' = [env EXCEPT !.otherMsgs = @ - 1]
    /\ \E m \in OtherMessages :
          Dispatch(m) \in {"continue", "logConfig", "ignore", "logUnknown"}
    /\ UNCHANGED << mainVars, keywordVars, slotVars, csVars, pumpVars, monitorPc,
                    connVars, summaryVars, drainVars >>

\* speech.go lines 11-13 with websocket.go lines 185-191: another session
\* of the process completes its handshake and stores its own contexts and
\* custom words in the process-wide variables
OtherSessionHandshake ==
    /\ env.otherSessions > 0
    /\ env' = [env EXCEPT !.otherSessions = @ - 1]
    /\ \E cw \in env.customWordChoices :
          /\ currentSpeechContexts' = createAdvancedSpeechContexts(cw, <<>>)
          /\ dynamicKeywords' = cw
    /\ UNCHANGED << keywordsMsg, acceptedKeywords >>
    /\ UNCHANGED << mainVars, slotVars, csVars, pumpVars, monitorPc, connVars,
                    summaryVars, drainVars >>

(* ------------------------------------------------------------------ *)
(* The handler: end of the read loop, drain, teardown.                   *)
(* ------------------------------------------------------------------ *)
\* the errors ReadMessage returns: a *websocket.CloseError with its code,
\* or another error
ReadErrors == {"CloseNormalClosure", "CloseGoingAway", "CloseNoStatusReceived",
               "CloseAbnormalClosure", "NotACloseError"}

\* websocket.IsUnexpectedCloseError(err, expectedCodes...): a close error
\* whose code is none of the expected ones
IsUnexpectedCloseError(err, expectedCodes) ==
    err # "NotACloseError" /\ err \notin expectedCodes

\* the end-of-session tasks that have not finished
RunningFinalTasks == {i \in DOMAIN tasks : tasks[i].kind = "final" /\ tasks[i].pc # "done"}

\* lines 596-613: ReadMessage fails; the drain wait is entered when the
\* error is not an unexpected close error and a final summary is in progress
MainReadError ==
    /\ mainPc = "read"
    /\ \E err \in ReadErrors :
          mainPc' = IF /\ ~IsUnexpectedCloseError(err, {"CloseGoingAway",
                                                        "CloseAbnormalClosure"})
                       /\ finalSummaryInProgress > 0
                    THEN "drainEnter" ELSE "cancel"
    /\ tasksAtDisconnect' = RunningFinalTasks
    /\ UNCHANGED << exitPath, customWords, speechContexts, gcp, ctxCancelled, connOpen,
                    audioChunkCount, mainStream, keywordVars, slotVars, csVars, pumpVars,
                    monitorPc, connVars, summaryVars, drainWaited, env >>

\* lines 609-611: time.After(35 * time.Second) fires
MainDrainTimeout ==
    /\ mainPc = "drainWait"
    /\ mainPc' = "cancel"
    /\ drainWaited' = "timeout"
    /\ UNCHANGED << exitPath, customWords, speechContexts, gcp, ctxCancelled, connOpen,
                    audioChunkCount, mainStream, keywordVars, slotVars, csVars, pumpVars,
                    monitorPc, connVars, summaryVars, tasksAtDisconnect, env >>

\* lines 614-616: cancel() and leave the loop
MainCancel ==
    /\ mainPc = "cancel"
    /\ ctxCancelled' = TRUE
    /\ mainPc' = "teardown"
    /\ UNCHANGED << exitPath, customWords, speechContexts, gcp, connOpen,
                    audioChunkCount, mainStream, keywordVars, slotVars, csVars, pumpVars,
                    monitorPc, connVars, summaryVars, drainVars, env >>

\* lines 890-900: close the current stream for writing, cancel() again
MainTeardown ==
    /\ mainPc = "teardown" /\ streamMu = "free"
    /\ streams' = CloseSend(streams, stream)
    /\ ctxCancelled' = TRUE
    /\ ReturnBy("readError")
    /\ UNCHANGED << customWords, speechContexts, gcp, connOpen, audioChunkCount,
                    mainStream, keywordVars, stream, streamMu, pendingAudioChunks,
                    streamOld, csVars, pumpVars, monitorPc, connVars, summaryVars,
                    drainVars, env >>

\* lines 36, 42, 176: the deferred calls: client.Close(), cancel(), conn.Close()
MainReturn ==
    /\ mainPc = "return"
    /\ ctxCancelled' = TRUE
    /\ connOpen' = FALSE
    /\ mainPc' = "done"
    /\ UNCHANGED << exitPath, customWords, speechContexts, gcp, audioChunkCount,
                    mainStream, keywordVars, slotVars, csVars, pumpVars, monitorPc,
                    connVars, summaryVars, drainVars, env >>

(* ------------------------------------------------------------------ *)
(* The result pump.  A response is [err, results]; a result is          *)
(* [alts, final], alts the transcripts of its alternatives; a text is a *)
(* sequence of characters.                                              *)
(* ------------------------------------------------------------------ *)
\* the response being processed
pumpResp == readLog[Len(readLog)]

RECURSIVE NextResult(_, _)
\* lines 479-480: the next result from index i on that has an alternative,
\* or 0 when the response is exhausted
NextResult(resp, i) ==
    IF i > Len(resp.results) THEN 0
    ELSE IF Len(resp.results[i].alts) > 0 THEN i
    ELSE NextResult(resp, i + 1)

\* line 481: result.Alternatives[0].Transcript
transcriptionText(result) == result.alts[1]

\* a transcription message that always carries IsFinal = true
TranscriptionResponseAllFinal(result) ==
    [type |-> "transcription", text |-> transcriptionText(result), final |-> TRUE]

\* lines 486-491: the transcription message of a result
TranscriptionResponse(result) ==
    [type |-> "transcription", text |-> transcriptionText(result), final |-> result.final]

\* WriteString(transcriptionText), without the separator
WriteStringNoSpace(transcript, result) == transcript \o transcriptionText(result)

\* line 508: fullTranscription.WriteString(transcriptionText + " ")
WriteString(transcript, result) == transcript \o transcriptionText(result) \o <<" ">>

\* lines 428-435: read the slot under streamMu
PumpGet ==
    /\ pumpPc = "get" /\ streamMu = "free"
    /\ pumpStream' = stream
    /\ pumpPc' = IF stream = Nil THEN "sleep" ELSE "recv"
    /\ UNCHANGED << mainVars, keywordVars, slotVars, csVars, pumpIdx, readLog,
                    fullTranscription, monitorPc, connVars, summaryVars, drainVars, env >>

\* line 433: time.Sleep(100 * time.Millisecond); continue
PumpSleep ==
    /\ pumpPc = "sleep"
    /\ pumpPc' = "get"
    /\ UNCHANGED << mainVars, keywordVars, slotVars, csVars, pumpStream, pumpIdx, readLog,
                    fullTranscription, monitorPc, connVars, summaryVars, drainVars, env >>

\* lines 437, 474-480: Recv returns a response
PumpRecvResponse ==
    /\ pumpPc = "recv" /\ env.responses > 0
    /\ env' = [env EXCEPT !.responses = @ - 1]
    /\ \E resp \in env.responseChoices :
          /\ readLog' = Append(readLog, resp)
          /\ pumpIdx' = IF resp.err THEN 0 ELSE NextResult(resp, 1)
          /\ pumpPc' = IF resp.err \/ NextResult(resp, 1) = 0 THEN "get" ELSE "write"
    /\ pumpStream' = Nil
    /\ UNCHANGED << mainVars, keywordVars, slotVars, csVars,
                    fullTranscription, monitorPc, connVars, summaryVars, drainVars >>

\* lines 438-452: Recv returns io.EOF: call createStream(nil)
PumpRecvEOF ==
    /\ pumpPc = "recv"
    /\ env.faults > 0 \/ streams[pumpStream].closed
    /\ env' = IF streams[pumpStream].closed THEN env ELSE [env EXCEPT !.faults = @ - 1]
    /\ Call("pump", NoContexts)
    /\ pumpPc' = "recreate"
    /\ pumpStream' = Nil
    /\ UNCHANGED << mainVars, keywordVars, slotVars, pumpIdx, readLog,
                    fullTranscription, monitorPc, connVars, summaryVars, drainVars >>

\* lines 453-472: Recv returns another error: stop when the context is
\* cancelled, else call createStream(nil)
PumpRecvError ==
    /\ pumpPc = "recv"
    /\ SendMayFail(pumpStream)
    /\ env' = AfterFailure(pumpStream)
    /\ IF ctxCancelled
       THEN pumpPc' = "done" /\ UNCHANGED csVars
       ELSE Call("pump", NoContexts) /\ pumpPc' = "recreate"
    /\ pumpStream' = Nil
    /\ UNCHANGED << mainVars, keywordVars, slotVars, pumpIdx, readLog,
                    fullTranscription, monitorPc, connVars, summaryVars, drainVars >>

\* PumpRecreated for a pump that returns whatever createStream returned
PumpRecreatedStops ==
    /\ pumpPc = "recreate" /\ Returned("pump")
    /\ TakeReturn("pump")
    /\ pumpPc' = "done"
    /\ UNCHANGED << mainVars, keywordVars, slotVars, pumpStream, pumpIdx, readLog,
                    fullTranscription, monitorPc, connVars, summaryVars, drainVars, env >>

\* lines 441-451 and 461-471: the recreation returned: on failure the pump
\* returns (whether or not the context is cancelled)
PumpRecreated ==
    /\ pumpPc = "recreate" /\ Returned("pump")
    /\ TakeReturn("pump")
    /\ pumpPc' = IF csPc["pump"] = "retErr" THEN "done" ELSE "get"
    /\ UNCHANGED << mainVars, keywordVars, slotVars, pumpStream, pumpIdx, readLog,
                    fullTranscription, monitorPc, connVars, summaryVars, drainVars, env >>

\* line 499: mu.Lock()
PumpLock ==
    /\ pumpPc = "write" /\ mu = "free"
    /\ mu' = "pump"
    /\ pumpPc' = "writing"
    /\ UNCHANGED << mainVars, keywordVars, slotVars, csVars, pumpStream, pumpIdx, readLog,
                    fullTranscription, monitorPc, clientLog, statusPending,
                    writeDeadline, summaryVars, drainVars, env >>

\* the pump goes on after result pumpIdx
PumpAdvance ==
    /\ pumpIdx' = NextResult(pumpResp, pumpIdx + 1)
    /\ pumpPc' = IF NextResult(pumpResp, pumpIdx + 1) = 0 THEN "get" ELSE "write"

\* a pump that goes on with the result after a failed write
PumpWriteIgnoresError ==
    /\ pumpPc = "writing"
    /\ mu' = "free"
    /\ \/ /\ connOpen
          /\ clientLog' = Append(clientLog,
                                 TranscriptionResponse(pumpResp.results[pumpIdx]))
       \/ UNCHANGED clientLog
    /\ IF pumpResp.results[pumpIdx].final
       THEN pumpPc' = "append" /\ UNCHANGED pumpIdx
       ELSE PumpAdvance
    /\ UNCHANGED << mainVars, keywordVars, slotVars, csVars, pumpStream, readLog,
                    fullTranscription, monitorPc, statusPending, writeDeadline,
                    summaryVars, drainVars, env >>

\* lines 500-507: write the transcription message; on failure the pump returns
PumpWrite ==
    /\ pumpPc = "writing"
    /\ mu' = "free"
    /\ \/ /\ connOpen
          /\ clientLog' = Append(clientLog,
                                 TranscriptionResponse(pumpResp.results[pumpIdx]))
          /\ IF pumpResp.results[pumpIdx].final
             THEN pumpPc' = "append" /\ UNCHANGED pumpIdx
             ELSE PumpAdvance
       \/ /\ pumpPc' = "done"
          /\ UNCHANGED << clientLog, pumpIdx >>
    /\ UNCHANGED << mainVars, keywordVars, slotVars, csVars, pumpStream, readLog,
                    fullTranscription, monitorPc, statusPending, writeDeadline,
                    summaryVars, drainVars, env >>

\* a summarization task at its start
NewTask(kind) == [kind |-> kind, pc |-> "snap", snap |-> <<>>]

\* a pump that runs the summarization of a final result inline and goes on
\* when it is over
PumpAppendInline ==
    /\ pumpPc = "append"
    /\ fullTranscription' = WriteString(fullTranscription, pumpResp.results[pumpIdx])
    /\ tasks' = IF gcp
                THEN Append(tasks, [kind |-> "incr", pc |-> "done",
                                    snap |-> TrimSpace(fullTranscription')])
                ELSE tasks
    /\ PumpAdvance
    /\ UNCHANGED << mainVars, keywordVars, slotVars, csVars, pumpStream, readLog,
                    monitorPc, connVars, currentSummary, finalSummaryInProgress,
                    drainVars, env >>

\* lines 507-511: a final result: append to the transcript, spawn the
\* incremental summarization when GCP is configured
PumpAppend ==
    /\ pumpPc = "append"
    /\ fullTranscription' = WriteString(fullTranscription, pumpResp.results[pumpIdx])
    /\ tasks' = IF gcp THEN Append(tasks, NewTask("incr")) ELSE tasks
    /\ PumpAdvance
    /\ UNCHANGED << mainVars, keywordVars, slotVars, csVars, pumpStream, readLog,
                    monitorPc, connVars, currentSummary, finalSummaryInProgress,
                    drainVars, env >>

(* ------------------------------------------------------------------ *)
(* The age monitor.                                                      *)
(* ------------------------------------------------------------------ *)
\* the stream reaches maxStreamDuration (line 289)
TimePasses ==
    /\ env.ages > 0 /\ ~streamOld /\ monitorPc = "wait"
    /\ env' = [env EXCEPT !.ages = @ - 1]
    /\ streamOld' = TRUE
    /\ UNCHANGED << mainVars, keywordVars, stream, streamMu, streams, pendingAudioChunks,
                    csVars, pumpVars, monitorPc, connVars, summaryVars, drainVars >>

\* a monitor that recreates only a stream that is in the slot
MonitorTickNeedsStream ==
    /\ monitorPc = "wait" /\ streamMu = "free" /\ streamOld /\ stream # Nil
    /\ Call("monitor", NoContexts)
    /\ monitorPc' = "recreate"
    /\ UNCHANGED << mainVars, keywordVars, slotVars, pumpVars, connVars, summaryVars,
                    drainVars, env >>

\* lines 565-574: a tick: read the age under streamMu, call createStream(nil)
\* when it reached the limit
MonitorTick ==
    /\ monitorPc = "wait" /\ streamMu = "free" /\ streamOld
    /\ Call("monitor", NoContexts)
    /\ monitorPc' = "recreate"
    /\ UNCHANGED << mainVars, keywordVars, slotVars, pumpVars, connVars, summaryVars,
                    drainVars, env >>

\* a monitor that returns after any failed recreation
MonitorRecreatedStops ==
    /\ monitorPc = "recreate" /\ Returned("monitor")
    /\ TakeReturn("monitor")
    /\ monitorPc' = IF csPc["monitor"] = "retErr" THEN "done" ELSE "wait"
    /\ UNCHANGED << mainVars, keywordVars, slotVars, pumpVars, connVars, summaryVars,
                    drainVars, env >>

\* lines 574-582: the recreation returned: on failure the monitor returns
\* when the context is cancelled and goes on otherwise
MonitorRecreated ==
    /\ monitorPc = "recreate" /\ Returned("monitor")
    /\ TakeReturn("monitor")
    /\ monitorPc' = IF csPc["monitor"] = "retErr" /\ ctxCancelled THEN "done" ELSE "wait"
    /\ UNCHANGED << mainVars, keywordVars, slotVars, pumpVars, connVars, summaryVars,
                    drainVars, env >>

\* lines 583-584: case <-ctx.Done(): return
MonitorDone ==
    /\ monitorPc = "wait" /\ ctxCancelled
    /\ monitorPc' = "done"
    /\ UNCHANGED << mainVars, keywordVars, slotVars, csVars, pumpVars, connVars,
                    summaryVars, drainVars, env >>

(* ------------------------------------------------------------------ *)
(* The status notifier of createStream.                                  *)
(* ------------------------------------------------------------------ *)
\* line 385: mu.Lock()
StatusLock ==
    /\ statusPending > 0 /\ mu = "free"
    /\ mu' = "status"
    /\ UNCHANGED << mainVars, keywordVars, slotVars, csVars, pumpVars, monitorPc,
                    clientLog, statusPending, writeDeadline, summaryVars, drainVars, env >>

\* lines 386-387: write the status message (the result is ignored), unlock
StatusWrite ==
    /\ mu = "status"
    /\ mu' = "free"
    /\ statusPending' = statusPending - 1
    /\ \/ connOpen /\ clientLog' = Append(clientLog, [type |-> "status"])
       \/ UNCHANGED clientLog
    /\ UNCHANGED << mainVars, keywordVars, slotVars, csVars, pumpVars, monitorPc,
                    writeDeadline, summaryVars, drainVars, env >>

(* ------------------------------------------------------------------ *)
(* Summarization tasks: "incr" after a final result, "final" after an    *)
(* end_prompt message.                                                   *)
(* ------------------------------------------------------------------ *)
\* lines 689-732: an end_prompt message: when GCP is configured, count the
\* task in and spawn it
MainReadEndPrompt ==
    /\ mainPc = "read" /\ env.endPrompts > 0
    /\ env' = [env EXCEPT !.endPrompts = @ - 1]
    /\ IF gcp
       THEN /\ finalSummaryInProgress' = finalSummaryInProgress + 1
            /\ tasks' = Append(tasks, NewTask("final"))
       ELSE UNCHANGED << finalSummaryInProgress, tasks >>
    /\ UNCHANGED << mainVars, keywordVars, slotVars, csVars, pumpVars, monitorPc,
                    connVars, currentSummary, drainVars >>

\* the task i is over: a final task still has its deferred function to run
Finished(i) == IF tasks[i].kind = "final" THEN "dec" ELSE "done"

\* a text read from the builder while its buffer is being replaced
Torn == <<"?">>

\* lines 512 and 728: fullTranscription.String(), called without any lock:
\* the content of the builder, or, when the pump is at its WriteString
\* (line 508), possibly a torn value
String == {fullTranscription} \cup (IF pumpPc = "append" THEN {Torn} ELSE {})

\* a final task whose return on an empty transcript skips the deferred function
TaskSnapshotNoDefer(i) ==
    /\ tasks[i].pc = "snap"
    /\ \E t \in String :
          tasks' = [tasks EXCEPT ![i].snap = TrimSpace(t),
                                 ![i].pc = IF tasks[i].kind = "final" /\ TrimSpace(t) = <<>>
                                           THEN "done" ELSE "gen"]
    /\ UNCHANGED << mainVars, keywordVars, slotVars, csVars, pumpVars, monitorPc,
                    connVars, currentSummary, finalSummaryInProgress, drainVars, env >>

\* lines 512-517 and 728-737: take the transcript; a final task with an
\* empty transcript returns
TaskSnapshot(i) ==
    /\ tasks[i].pc = "snap"
    /\ \E t \in String :
          tasks' = [tasks EXCEPT ![i].snap = TrimSpace(t),
                                 ![i].pc = IF tasks[i].kind = "final" /\ TrimSpace(t) = <<>>
                                           THEN "dec" ELSE "gen"]
    /\ UNCHANGED << mainVars, keywordVars, slotVars, csVars, pumpVars, monitorPc,
                    connVars, currentSummary, finalSummaryInProgress, drainVars, env >>

\* a generateSummary whose error or empty text clears the summary
TaskGenerateClears(i) ==
    /\ tasks[i].pc = "gen"
    /\ \/ /\ tasks' = [tasks EXCEPT ![i].pc = Finished(i)]
          /\ currentSummary' = NoSummary
       \/ /\ tasks[i].kind = "incr" => ~ctxCancelled
          /\ currentSummary' = [task |-> i, snap |-> tasks[i].snap]
          /\ tasks' = [tasks EXCEPT ![i].pc = "lock"]
    /\ UNCHANGED << mainVars, keywordVars, slotVars, csVars, pumpVars, monitorPc,
                    connVars, finalSummaryInProgress, drainVars, env >>

\* a generateSummary that the cancellation of the session makes fail for
\* every kind of task
TaskGenerateAborted(i) ==
    /\ tasks[i].pc = "gen"
    /\ \/ /\ tasks' = [tasks EXCEPT ![i].pc = Finished(i)]
          /\ UNCHANGED currentSummary
       \/ /\ ~ctxCancelled
          /\ currentSummary' = [task |-> i, snap |-> tasks[i].snap]
          /\ tasks' = [tasks EXCEPT ![i].pc = "lock"]
    /\ UNCHANGED << mainVars, keywordVars, slotVars, csVars, pumpVars, monitorPc,
                    connVars, finalSummaryInProgress, drainVars, env >>

\* lines 522-531 and 747-756: generateSummary returns an error, an empty
\* text, or a summary, which replaces currentSummary
TaskGenerate(i) ==
    /\ tasks[i].pc = "gen"
    /\ \/ /\ tasks' = [tasks EXCEPT ![i].pc = Finished(i)]
          /\ UNCHANGED currentSummary
       \/ /\ tasks[i].kind = "incr" => ~ctxCancelled
          /\ currentSummary' = [task |-> i, snap |-> tasks[i].snap]
          /\ tasks' = [tasks EXCEPT ![i].pc = "lock"]
    /\ UNCHANGED << mainVars, keywordVars, slotVars, csVars, pumpVars, monitorPc,
                    connVars, finalSummaryInProgress, drainVars, env >>

\* a summarization task that writes without waiting for mu
TaskLockUnguarded(i) ==
    /\ tasks[i].pc = "lock"
    /\ mu' = "task"
    /\ tasks' = [tasks EXCEPT ![i].pc = "write"]
    /\ UNCHANGED << mainVars, keywordVars, slotVars, csVars, pumpVars, monitorPc,
                    clientLog, statusPending, writeDeadline, currentSummary,
                    finalSummaryInProgress, drainVars, env >>

\* lines 544 and 771: mu.Lock()
TaskLock(i) ==
    /\ tasks[i].pc = "lock" /\ mu = "free"
    /\ mu' = "task"
    /\ tasks' = [tasks EXCEPT ![i].pc = "write"]
    /\ UNCHANGED << mainVars, keywordVars, slotVars, csVars, pumpVars, monitorPc,
                    clientLog, statusPending, writeDeadline, currentSummary,
                    finalSummaryInProgress, drainVars, env >>

\* line 776: the end-of-session task sets the write deadline of the
\* connection (conn is never nil)
TaskDeadline(i) ==
    /\ tasks[i].kind = "final" /\ tasks[i].pc = "write"
    /\ writeDeadline' = TRUE
    /\ tasks' = [tasks EXCEPT ![i].pc = "send"]
    /\ UNCHANGED << mainVars, keywordVars, slotVars, csVars, pumpVars, monitorPc,
                    mu, clientLog, statusPending, currentSummary,
                    finalSummaryInProgress, drainVars, env >>

\* the position from which the task i writes its summary message
AtWrite(i) == IF tasks[i].kind = "final" THEN "send" ELSE "write"

\* lines 545-548 and 782-796: write the summary message (a failure is only
\* logged), unlock; the end-of-session task clears the write deadline first
TaskWrite(i) ==
    /\ tasks[i].pc = AtWrite(i)
    /\ mu' = "free"
    /\ writeDeadline' = IF tasks[i].kind = "final" THEN FALSE ELSE writeDeadline
    /\ \/ connOpen
          /\ clientLog' = Append(clientLog,
                                 [type |-> "summary",
                                  summary |-> [task |-> i, snap |-> tasks[i].snap]])
       \/ UNCHANGED clientLog
    /\ tasks' = [tasks EXCEPT ![i].pc = Finished(i)]
    /\ UNCHANGED << mainVars, keywordVars, slotVars, csVars, pumpVars, monitorPc,
                    statusPending, currentSummary, finalSummaryInProgress, drainVars, env >>

\* lines 714-716: the deferred function of a final task: count the task out
TaskCountOut(i) ==
    /\ tasks[i].pc = "dec"
    /\ finalSummaryInProgress' = finalSummaryInProgress - 1
    /\ tasks' = [tasks EXCEPT ![i].pc = "signal"]
    /\ UNCHANGED << mainVars, keywordVars, slotVars, csVars, pumpVars, monitorPc,
                    connVars, currentSummary, drainVars, env >>

\* lines 717-720 with 606-608: the non-blocking send on finalSummaryDone:
\* received when the handler is blocked in the select, dropped otherwise
TaskSignal(i) ==
    /\ tasks[i].pc = "signal"
    /\ tasks' = [tasks EXCEPT ![i].pc = "done"]
    /\ IF mainPc = "drainWait"
       THEN mainPc' = "cancel" /\ drainWaited' = "signal"
       ELSE UNCHANGED << mainPc, drainWaited >>
    /\ UNCHANGED << exitPath, customWords, speechContexts, gcp, ctxCancelled, connOpen,
                    audioChunkCount, mainStream, keywordVars, slotVars, csVars, pumpVars,
                    monitorPc, connVars, currentSummary, finalSummaryInProgress,
                    tasksAtDisconnect, env >>

\* lines 604-606: the handler reaches the select of the drain wait
MainDrainBegin ==
    /\ mainPc = "drainEnter"
    /\ mainPc' = "drainWait"
    /\ UNCHANGED << exitPath, customWords, speechContexts, gcp, ctxCancelled, connOpen,
                    audioChunkCount, mainStream, keywordVars, slotVars, csVars, pumpVars,
                    monitorPc, connVars, summaryVars, drainVars, env >>

(* ------------------------------------------------------------------ *)
(* Environments and specifications.                                     *)
(* ------------------------------------------------------------------ *)
wk == <<"k">>
wK == <<"K">>
wPadded == <<" ", "K", " ">>
wq == <<"q">>
wBlank == <<" ">>

finalA == [alts |-> << <<"a">>, <<"x">> >>, final |-> TRUE]
finalB == [alts |-> << <<" ", "b">> >>, final |-> TRUE]
interimA == [alts |-> << <<"a">> >>, final |-> FALSE]
finalNoAlt == [alts |-> <<>>, final |-> TRUE]

Responses == { [err |-> FALSE, results |-> <<finalA>>],
               [err |-> FALSE, results |-> <<interimA, finalB>>],
               [err |-> FALSE, results |-> <<finalNoAlt, interimA>>],
               [err |-> TRUE, results |-> <<finalB>>] }

NoEnv == [chunks |-> 0, responses |-> 0, faults |-> 0, ages |-> 0, keywordMsgs |-> 0,
          endPrompts |-> 0, otherSessions |-> 0, otherMsgs |-> 0,
          customWordChoices |-> {<<>>}, phraseSetChoices |-> {<<>>},
          gcpChoices |-> {FALSE},
          keywordChoices |-> {}, responseChoices |-> {}]

CreateStreamSteps ==
    \E p \in Callers : CsEnter(p) \/ CsOpen(p) \/ CsHandshake(p) \/ CsCommit(p)

SessionStart == MainHandshake \/ MainNewClient \/ MainInitialStream

SessionEnd == MainReadError \/ MainCancel \/ MainTeardown \/ MainReturn

Ingestion ==
    \/ MainReadAudio \/ MainAudioGet \/ MainAudioSend
    \/ MainAudioBufferNil \/ MainAudioBufferFail \/ MainAudioRecreated

PumpRecv ==
    \/ PumpGet \/ PumpSleep \/ PumpRecvEOF \/ PumpRecvError \/ PumpRecreated

PumpResults == PumpRecvResponse \/ PumpLock \/ PumpWrite \/ PumpAppend

Monitor == TimePasses \/ MonitorTick \/ MonitorRecreated \/ MonitorDone

Status == StatusLock \/ StatusWrite

Keywords == MainReadKeywords \/ MainKeywordsRecreated

\* the stream slot under every task that replaces it
EnvStream == [NoEnv EXCEPT !.chunks = MaxChunks, !.faults = MaxFaults, !.ages = MaxAges,
                           !.keywordMsgs = MaxKeywordMsgs,
                           !.keywordChoices = {<<wk>>}]

Init == InitWith(EnvStream)

Next ==
    \/ SessionStart \/ CreateStreamSteps \/ Ingestion \/ Keywords \/ PumpRecv
    \/ Monitor \/ SessionEnd

Spec == Init /\ [][Next]_vars

\* a long run of audio frames from a client that stays connected, with a
\* keywords update whose recreation can fail and leave the slot empty
EnvBuffer == [NoEnv EXCEPT !.chunks = MaxChunksBuffer, !.faults = MaxFaultsBuffer,
                           !.keywordMsgs = MaxKeywordMsgs,
                           !.keywordChoices = {<<wk>>}]

InitBuffer == InitWith(EnvBuffer)

NextBuffer ==
    \/ SessionStart \/ CreateStreamSteps \/ Ingestion \/ Keywords \/ PumpRecv
    \/ MainReturn

SpecBuffer == InitBuffer /\ [][NextBuffer]_vars

\* keywords messages in every case and whitespace variant, in a process
\* that serves other sessions
EnvKeywords == [NoEnv EXCEPT !.keywordMsgs = MaxKeywordMsgsDedup,
                             !.faults = MaxFaultsBuffer,
                             !.otherSessions = MaxOtherSessions,
                             !.customWordChoices = {<<>>, <<wq>>},
                             !.keywordChoices = {<<wk>>, <<wK, wPadded>>, <<wPadded>>,
                                                 <<wq, wBlank>>}]

InitKeywords == InitWith(EnvKeywords)

NextKeywords ==
    \/ SessionStart \/ CreateStreamSteps \/ Keywords \/ OtherSessionHandshake
    \/ PumpRecv \/ MainReturn

SpecKeywords == InitKeywords /\ [][NextKeywords]_vars

\* the same client in a process that serves this session only
NextKeywordsAlone ==
    \/ SessionStart \/ CreateStreamSteps \/ Keywords \/ PumpRecv \/ MainReturn

SpecKeywordsAlone == InitKeywords /\ [][NextKeywordsAlone]_vars

(* ------------------------------------------------------------------ *)
(* Properties.                                                          *)
(* ------------------------------------------------------------------ *)
Handshaken(s) == s = Nil \/ streams[s].handshaken

\* C2: the slot, and every copy of it read by the ingestion path, the pump
\* or the teardown, is nil or a stream whose configuration message was sent
\* successfully; a stream that is opened but not handshaken, or whose
\* handshake failed, is never current.
C2_CurrentStreamHandshaken ==
    Handshaken(stream) /\ Handshaken(mainStream) /\ Handshaken(pumpStream)

\* the ingestion path and the pump hold a stream they read from the slot
\* while another task is inside createStream with a stream that is opened
\* and not handshaken
C2_Witness ==
    /\ mainStream # Nil /\ pumpStream # Nil
    /\ \E p \in Callers : csPc[p] = "handshake" /\ ~streams[csNew[p]].handshaken

\* C6: handling an audio frame returns to the read loop without waiting for
\* a createStream call to complete: the ingestion path is never inside a
\* createStream call of its own, and never waits for streamMu while another
\* task is inside createStream.
C6_IngestionNeverWaits ==
    /\ mainPc # "audioRecreate"
    /\ ~(mainPc \in {"audioGet", "audioBufNil", "audioBufFail"} /\ streamMu \in Callers)

\* C8: a failed write of an audio frame never ends the session: the handler
\* never leaves by the return that follows a send failure.
C8_SendFailureNotFatal ==
    exitPath = "sendError" => mainPc \notin {"return", "done"} /\ ~ctxCancelled /\ connOpen

\* C9: once the handler of a session that reached Active has finished, the
\* cancellation signal is set and the stream in the slot, if any, has been
\* closed for writing.
C9_ClosedOnEveryPath ==
    (mainPc = "done" /\ exitPath \in {"readError", "sendError"})
        => ctxCancelled /\ (stream # Nil => streams[stream].closed)

\* a step of the ingestion path that adds the frame to the buffer
BufferingStep ==
    /\ mainPc \in {"audioBufNil", "audioBufFail"}
    /\ mainPc' \notin {"audioBufNil", "audioBufFail"}

\* C3: whenever streamMu is free the pending audio buffer holds at most 10
\* frames, and a frame added to a buffer that holds 10 drops the oldest
\* frame and keeps the others in order.
C3_BufferBound ==
    [][ /\ streamMu' = "free" => Len(pendingAudioChunks') <= MaxPendingChunks
        /\ (BufferingStep /\ Len(pendingAudioChunks) = MaxPendingChunks)
              => pendingAudioChunks' = Tail(pendingAudioChunks) \o <<audioChunkCount>>
      ]_vars

\* the buffer is full and its oldest frame has been dropped
C3_Witness ==
    /\ Len(pendingAudioChunks) = MaxPendingChunks
    /\ Head(pendingAudioChunks) > 1
    /\ streamMu = "free"

\* an end-of-session summary requested once or twice, and a client that
\* disconnects in every way while the summaries are generated
EnvDrain == [NoEnv EXCEPT !.endPrompts = MaxEndPrompts, !.responses = MaxResponsesDrain,
                          !.gcpChoices = {TRUE, FALSE},
                          !.responseChoices = {[err |-> FALSE, results |-> <<finalA>>]}]

InitDrain == InitWith(EnvDrain)

SummaryTasks ==
    \E i \in DOMAIN tasks :
        \/ TaskSnapshot(i) \/ TaskGenerate(i) \/ TaskLock(i) \/ TaskDeadline(i)
        \/ TaskWrite(i) \/ TaskCountOut(i) \/ TaskSignal(i)

Drain == MainReadEndPrompt \/ MainDrainBegin \/ MainDrainTimeout

NextDrain ==
    \/ SessionStart \/ CreateStreamSteps \/ PumpGet \/ PumpRecvEOF \/ PumpRecvError
    \/ PumpRecreated \/ PumpResults \/ SummaryTasks \/ Drain \/ SessionEnd \/ MonitorDone

SpecDrain == InitDrain /\ [][NextDrain]_vars

\* an end-of-session summary requested while a final result is summarized,
\* and a client that disconnects in every way or stays; every task of the
\* session keeps running, the text-generation service answers or fails
\* (within the 30 s of the task's own context) and the drain timer fires
EnvFinal == [NoEnv EXCEPT !.endPrompts = MaxEndPromptsFinal, !.responses = MaxResponsesDrain,
                          !.gcpChoices = {TRUE},
                          !.responseChoices = {[err |-> FALSE, results |-> <<finalA>>]}]

InitFinal == InitWith(EnvFinal)

FairFinal ==
    /\ WF_vars(SessionStart \/ MainDrainBegin \/ MainDrainTimeout \/ MainCancel
                  \/ MainTeardown \/ MainReturn)
    /\ WF_vars(CreateStreamSteps)
    /\ WF_vars(PumpGet \/ PumpRecvEOF \/ PumpRecvError \/ PumpRecreated \/ PumpResults)
    /\ WF_vars(MonitorDone)
    /\ WF_vars(SummaryTasks)

SpecFinal == InitFinal /\ [][NextDrain]_vars /\ FairFinal

\* the writers of the client connection together: the pump, the status
\* notifier, an incremental and an end-of-session summarization
EnvWriters == [EnvFinal EXCEPT !.responseChoices =
                                   {[err |-> FALSE, results |-> <<finalA, interimA>>]}]

InitWriters == InitWith(EnvWriters)

NextWriters == NextDrain \/ Status

SpecWriters == InitWriters /\ [][NextWriters]_vars

\* a session with custom words whose client sends, besides audio, a
\* keywords update and an end_prompt, text messages of the other kinds
EnvMessages == [NoEnv EXCEPT !.otherMsgs = MaxOtherMsgs, !.chunks = MaxChunksTranscript,
                             !.faults = MaxFaultsBuffer, !.responses = MaxResponsesDrain,
                             !.endPrompts = MaxEndPromptsFinal,
                             !.keywordMsgs = MaxKeywordMsgs,
                             !.customWordChoices = {<<wq>>},
                             !.keywordChoices = {<<wk>>},
                             !.gcpChoices = {TRUE},
                             !.responseChoices = {[err |-> FALSE, results |-> <<finalA>>]}]

InitMessages == InitWith(EnvMessages)

NextMessages ==
    \/ SessionStart \/ CreateStreamSteps \/ Ingestion \/ Keywords \/ MainReadOther
    \/ MainReadEndPrompt \/ PumpRecv \/ PumpResults \/ SummaryTasks

SpecMessages == InitMessages /\ [][NextMessages]_vars

\* results of every kind read across recreations of every cause
EnvTranscript == [NoEnv EXCEPT !.responses = MaxResponses, !.chunks = MaxChunksTranscript,
                               !.faults = MaxFaultsBuffer, !.ages = MaxAges,
                               !.keywordMsgs = MaxKeywordMsgs,
                               !.keywordChoices = {<<wk>>},
                               !.responseChoices = Responses]

InitTranscript == InitWith(EnvTranscript)

NextTranscript ==
    \/ SessionStart \/ CreateStreamSteps \/ Ingestion \/ Keywords \/ Monitor
    \/ PumpRecv \/ PumpResults \/ MainReturn

SpecTranscript == InitTranscript /\ [][NextTranscript]_vars

\* results of every kind read across recreations by the pump and by a
\* keywords update, while status and summary messages are written
EnvDelivery == [NoEnv EXCEPT !.responses = MaxResponses,
                             !.keywordMsgs = MaxKeywordMsgs,
                             !.keywordChoices = {<<wk>>},
                             !.gcpChoices = {TRUE, FALSE},
                             !.responseChoices = Responses]

InitDelivery == InitWith(EnvDelivery)

IncrementalTasks ==
    \E i \in DOMAIN tasks :
        TaskSnapshot(i) \/ TaskGenerate(i) \/ TaskLock(i) \/ TaskWrite(i)

NextDelivery ==
    \/ SessionStart \/ CreateStreamSteps \/ Keywords \/ PumpGet \/ PumpRecvEOF
    \/ PumpRecvError \/ PumpRecreated \/ PumpResults \/ Status \/ IncrementalTasks
    \/ MainReturn

SpecDelivery == InitDelivery /\ [][NextDelivery]_vars

\* a session whose recreations can fail and leave the slot empty, whose
\* upstream never answers, and whose client disconnects; every task of the
\* session keeps running (the goroutines are scheduled, the upstream calls
\* return or fail)
EnvLive == [NoEnv EXCEPT !.faults = MaxFaultsBuffer, !.ages = MaxAges,
                         !.keywordMsgs = MaxKeywordMsgs,
                         !.keywordChoices = {<<wk>>}]

InitLive == InitWith(EnvLive)

NextLive ==
    \/ SessionStart \/ CreateStreamSteps \/ Keywords \/ PumpRecv \/ Monitor
    \/ SessionEnd

FairLive ==
    /\ WF_vars(SessionStart \/ Keywords \/ MainCancel \/ MainTeardown \/ MainReturn)
    /\ WF_vars(CreateStreamSteps)
    /\ WF_vars(PumpRecv)
    /\ WF_vars(MonitorTick \/ MonitorRecreated \/ MonitorDone)

SpecLive == InitLive /\ [][NextLive]_vars /\ FairLive

\* results written to a client connection whose writes can fail, and a
\* client that disconnects or stays; every task of the session keeps running
EnvWrite == [NoEnv EXCEPT !.responses = MaxResponses, !.responseChoices = Responses]

InitWrite == InitWith(EnvWrite)

NextWrite ==
    \/ SessionStart \/ CreateStreamSteps \/ PumpGet \/ PumpRecvEOF \/ PumpRecvError
    \/ PumpRecreated \/ PumpResults \/ SessionEnd \/ MonitorDone

FairWrite ==
    /\ WF_vars(SessionStart \/ MainCancel \/ MainTeardown \/ MainReturn)
    /\ WF_vars(CreateStreamSteps)
    /\ WF_vars(PumpGet \/ PumpRecvEOF \/ PumpRecvError \/ PumpRecreated \/ PumpResults)
    /\ WF_vars(MonitorDone)

SpecWrite == InitWrite /\ [][NextWrite]_vars /\ FairWrite

\* keywords messages to a session configured with custom words and phrase
\* sets, in a process that serves this session only
EnvPhraseSets == [NoEnv EXCEPT !.keywordMsgs = MaxKeywordMsgsDedup,
                               !.faults = MaxFaultsBuffer,
                               !.customWordChoices = {<<>>, <<wq>>},
                               !.phraseSetChoices = {<<>>, <<wK>>},
                               !.keywordChoices = {<<wk>>, <<wK, wPadded>>, <<wPadded>>,
                                                   <<wq, wBlank>>}]

InitPhraseSets == InitWith(EnvPhraseSets)

SpecPhraseSets == InitPhraseSets /\ [][NextKeywordsAlone]_vars

\* the number of entries of the dynamic keyword list with key k
Entries(dyn, k) == Cardinality({i \in DOMAIN dyn : KeywordKey(dyn[i]) = k})

\* the keys of the non-blank words of a keywords message
MsgKeys(words) == {KeywordKey(words[i]) : i \in DOMAIN words} \ {<<>>}

\* C4: a keywords message that submits a keyword accepted earlier in the
\* session (in any case or whitespace variant, in the same or an earlier
\* message) leaves exactly one entry for it in the dynamic keyword list,
\* and a message whose words were all accepted earlier triggers no stream
\* recreation.
C4_HintIdempotence ==
    [][ (mainPc = "read" /\ env.keywordMsgs' < env.keywordMsgs) =>
          /\ \A k \in MsgKeys(keywordsMsg') \cap acceptedKeywords' :
                 Entries(dynamicKeywords', k) = 1
          /\ MsgKeys(keywordsMsg') \subseteq acceptedKeywords => mainPc' = "read"
      ]_vars

\* the work of task t is over: only its deferred function may remain
Completed(t) == tasks[t].pc \in {"dec", "signal", "done"}

\* C5: when the read loop ends, for whatever reason the read fails, while an
\* end-of-session summarization task is running, the session is not
\* cancelled until that task has completed or the drain timeout has elapsed.
C5_DrainGuarantee ==
    ctxCancelled /\ exitPath # "sendError" =>
        \/ \A t \in tasksAtDisconnect : Completed(t)
        \/ drainWaited = "timeout"

\* the results of a response that have a text, none when the response
\* carries an error
Deliverable(resp) ==
    IF resp.err THEN <<>> ELSE SelectSeq(resp.results, LAMBDA r : Len(r.alts) > 0)

RECURSIVE FlatResults(_)
\* the results with a text of the responses read, in the order read
FlatResults(log) ==
    IF log = <<>> THEN <<>>
    ELSE FlatResults(SubSeq(log, 1, Len(log) - 1)) \o Deliverable(log[Len(log)])

RECURSIVE FinalTexts(_)
\* the first alternatives of the final results of rs, each followed by a space
FinalTexts(rs) ==
    IF rs = <<>> THEN <<>>
    ELSE FinalTexts(SubSeq(rs, 1, Len(rs) - 1))
           \o (IF rs[Len(rs)].final THEN rs[Len(rs)].alts[1] \o <<" ">> ELSE <<>>)

\* the transcription messages written to the client, in the order written
Transcriptions == SelectSeq(clientLog, LAMBDA m : m.type = "transcription")

\* the number of results whose transcription message was written and whose
\* processing by the pump is over
Processed == IF pumpPc = "append" THEN Len(Transcriptions) - 1 ELSE Len(Transcriptions)

\* C1 as stated: whenever the pump is not in the middle of a response, the
\* transcript equals the texts of all the final results read, in the order
\* read, each followed by a single space.
C1_AllFinalResultsRead ==
    pumpPc \notin {"write", "writing", "append"}
        => fullTranscription = FinalTexts(FlatResults(readLog))

\* C1, amended: the transcript equals the texts of the final results among
\* the results whose transcription message was written to the client, in
\* the order read, each followed by a single space; a result read after a
\* failed client write, or without alternative, or in a response carrying
\* an error, adds nothing.
C1_TranscriptOrdering ==
    /\ Processed <= Len(FlatResults(readLog))
    /\ fullTranscription = FinalTexts(SubSeq(FlatResults(readLog), 1, Processed))

\* two final results read on both sides of recreations, an interim result
\* between them
C1_Witness ==
    /\ Len(streams) >= 3
    /\ Len(readLog) = 2 /\ ~readLog[1].err /\ ~readLog[2].err
    /\ Len(Transcriptions) = 3
    /\ fullTranscription = <<"a", " ", " ", "b", " ">>

\* C7: the transcription messages written to the client are, in order, the
\* results the pump read (those with a text, of responses without error),
\* each with the text and the finality flag of its result, none twice and
\* none skipped, whatever the recreations and the other writers do.
C7_DeliveryOrder ==
    /\ Len(Transcriptions) <= Len(FlatResults(readLog))
    /\ \A i \in 1..Len(Transcriptions) :
          /\ Transcriptions[i].text = FlatResults(readLog)[i].alts[1]
          /\ Transcriptions[i].final = FlatResults(readLog)[i].final
    /\ pumpPc \in {"get", "recv", "recreate"} /\ pumpIdx = 0
          => Len(Transcriptions) = Len(FlatResults(readLog))

\* an interim and a final transcription message with a status or summary
\* message written between them, after a recreation
C7_Witness ==
    /\ Len(streams) >= 2
    /\ \E i, j, k \in DOMAIN clientLog :
          /\ i < j /\ j < k
          /\ clientLog[i].type = "transcription" /\ ~clientLog[i].final
          /\ clientLog[j].type \in {"status", "summary"}
          /\ clientLog[k].type = "transcription" /\ clientLog[k].final

\* C10: after the client read loop has terminated, the handler finishes and
\* both the result pump and the age monitor terminate.
C10_SessionTerminates ==
    (mainPc = "cancel") ~> (mainPc = "done" /\ pumpPc = "done" /\ monitorPc = "done")

\* C11: once the cancellation signal is set, no step opens an upstream
\* stream and no step records a stream as current.
C11_NoStreamAfterCancel ==
    [][ ctxCancelled => /\ Len(streams') = Len(streams)
                        /\ (stream' # stream => stream' = Nil) ]_vars

\* stream s can be written to: its configuration was sent (a failed Send
\* aborts the stream) and it was not closed for writing
OpenForWriting(s) == streams[s].handshaken /\ ~streams[s].closed

\* C12: whenever streamMu is free, the only stream that can be open for
\* writing is the one in the slot: a stream that was current and has been
\* superseded is closed for writing.
C12_OneStreamOpen ==
    streamMu = "free" => \A s \in DOMAIN streams : OpenForWriting(s) => s = stream

\* the second stream is current and open, the first was closed
C12_Witness ==
    /\ streamMu = "free" /\ stream = 2
    /\ OpenForWriting(2)
    /\ streams[1].handshaken /\ streams[1].closed

\* the pump leaves Recv without a response: end-of-stream or a read error
PumpReadFails == pumpPc = "recv" /\ pumpPc' # "recv" /\ readLog' = readLog

\* C13: an end-of-stream or a read error read by the pump while the session
\* is not cancelled makes it call createStream; when the call succeeded the
\* pump reads the slot again and receives from the stream that is then
\* current; the pump ends only after a failed recreation, a read error under
\* cancellation or a failed client write.
C13_ReadErrorRecoverable ==
    [][ /\ (PumpReadFails /\ ~ctxCancelled)
              => pumpPc' = "recreate" /\ csPc'["pump"] = "enter"
        /\ (pumpPc = "recreate" /\ pumpPc' # "recreate" /\ csPc["pump"] = "retOk")
              => pumpPc' = "get"
        /\ (pumpPc = "get" /\ pumpPc' = "recv") => pumpStream' = stream /\ stream # Nil
        /\ (pumpPc # "done" /\ pumpPc' = "done")
              => \/ pumpPc = "recreate" /\ csPc["pump"] = "retErr"
                 \/ pumpPc = "recv" /\ ctxCancelled
                 \/ pumpPc = "writing"
      ]_vars

\* after two recreations of its own the pump receives from the third stream
C13_Witness ==
    /\ pumpPc = "recv" /\ pumpStream = 3 /\ stream = 3
    /\ env.faults = 0 /\ ~ctxCancelled /\ ~streamOld /\ env.ages = MaxAges
    /\ env.keywordMsgs = MaxKeywordMsgs /\ audioChunkCount = 0

\* C14: when the pump has ended while the session was not cancelled (its
\* recreation failed), the session goes to Closed: the cancellation is set
\* and the connection released.  Only failures of the upstream itself are
\* considered, not the refusal of a stream beyond MaxStreams.
C14_PumpFailureFatal ==
    (pumpPc = "done" /\ ~ctxCancelled /\ Len(streams) < MaxStreams)
        ~> (ctxCancelled /\ ~connOpen)

\* the pump returned because the write of the transcription message of
\* result pumpIdx failed
TranscriptionWriteFailed == pumpPc = "done" /\ pumpIdx # 0

\* C15: after a failed write of a transcription message the session shuts
\* down by itself: the cancellation is set and the stream of the slot is
\* closed for writing.
C15_WriteFailureShutsDown ==
    (TranscriptionWriteFailed /\ ~ctxCancelled)
        ~> (ctxCancelled /\ (stream # Nil => streams[stream].closed))

\* the createStream call of p returns an error in this step
CsFails(p) == csPc[p] \in {"enter", "open", "handshake"} /\ csPc'[p] = "retErr"

\* C16: when a createStream call returns an error, the slot is empty, no
\* stream is open for writing, and the call has left the buffer and the age
\* of the stream as they were, opened no stream in the failing step and
\* spawned no status notifier; while a call holds streamMu the slot and the
\* buffer do not change.
C16_FailureLeavesSlotEmpty ==
    [][ /\ \A p \in Callers : CsFails(p) =>
              /\ stream' = Nil /\ streamMu' = "free"
              /\ \A s \in DOMAIN streams' :
                     ~(streams'[s].handshaken /\ ~streams'[s].closed)
              /\ pendingAudioChunks' = pendingAudioChunks
              /\ streamOld' = streamOld
              /\ statusPending' = statusPending /\ clientLog' = clientLog
              /\ Len(streams') = Len(streams)
        /\ (streamMu \in Callers /\ streamMu' = streamMu) =>
              /\ stream' = stream
              /\ pendingAudioChunks' = pendingAudioChunks
              /\ (streamOld => streamOld')
      ]_vars

\* the recreation of an aged stream by the monitor has failed with a frame
\* in the buffer
C16_Witness ==
    /\ csPc["monitor"] = "retErr" /\ ~ctxCancelled
    /\ stream = Nil /\ streamOld /\ Len(pendingAudioChunks) > 0
    /\ streams[Len(streams)].handshaken /\ streams[Len(streams)].closed

\* the frames of fs are in the order the client submitted them
InSubmissionOrder(fs) == \A i, j \in DOMAIN fs : i < j => fs[i] < fs[j]

\* C17: the step in which a createStream call succeeds leaves the new
\* stream current and the buffer empty, and has sent to the new stream a
\* prefix of the buffer, in the buffer's order (the whole buffer when no
\* Send can fail); every stream receives its frames in the order the client
\* submitted them, so buffered frames come before later ones.
C17_FlushInOrder ==
    [][ /\ \A p \in Callers : (csPc[p] = "commit" /\ csPc'[p] = "retOk") =>
              /\ stream' = csNew[p] /\ pendingAudioChunks' = <<>>
              /\ streams[csNew[p]].sent = <<>>
              /\ \E n \in 0..Len(pendingAudioChunks) :
                     streams'[csNew[p]].sent = SubSeq(pendingAudioChunks, 1, n)
              /\ (env.faults = 0 /\ ~ctxCancelled)
                     => streams'[csNew[p]].sent = pendingAudioChunks
        /\ \A s \in DOMAIN streams' : InSubmissionOrder(streams'[s].sent)
      ]_vars

\* the monitor's createStream succeeded, the first of two buffered frames
\* was sent and the second was discarded
C17_Witness ==
    /\ csPc["monitor"] = "retOk" /\ stream = csNew["monitor"]
    /\ mainPc = "read" /\ audioChunkCount = 2
    /\ streams[stream].sent = <<1>> /\ pendingAudioChunks = <<>>
    /\ \A s \in DOMAIN streams : s # stream => streams[s].sent = <<>>

\* the handler takes a keywords message in this step
KeywordsStep == mainPc = "read" /\ env.keywordMsgs' < env.keywordMsgs

\* the keys of the session's custom words and of the keywords it accepted
SessionKeys == {KeywordKey(customWords[i]) : i \in DOMAIN customWords} \cup acceptedKeywords

\* the keys of the phrases of a hint set
HintKeys(ctxs) ==
    UNION {{KeywordKey(ctxs[c].phrases[i]) : i \in DOMAIN ctxs[c].phrases} : c \in DOMAIN ctxs}

\* C18: a keywords message with a word that is new to the session calls
\* createStream once, with an override hint set that holds the new words;
\* a message without a new word leaves the slot, the age of the stream, the
\* buffer and the status notifiers untouched and calls nothing.
C18_KeywordsRecreateOnce ==
    [][ /\ KeywordsStep =>
              IF MsgKeys(keywordsMsg') \ SessionKeys # {}
              THEN /\ mainPc' = "kwRecreate" /\ csPc'["main"] = "enter"
                   /\ csUpd'["main"].some
                   /\ MsgKeys(keywordsMsg') \subseteq HintKeys(csUpd'["main"].ctxs)
              ELSE /\ mainPc' = "read" /\ csPc' = csPc
                   /\ stream' = stream /\ streamOld' = streamOld
                   /\ pendingAudioChunks' = pendingAudioChunks
                   /\ statusPending' = statusPending
        /\ (mainPc = "kwRecreate" /\ mainPc' # "kwRecreate")
              => mainPc' = "read" /\ csPc'["main"] = "idle"
      ]_vars

\* the keys of everything in the session's hint set: the phrases of its
\* original contexts (custom words, phrase sets) and the accepted keywords
PresentKeys == HintKeys(speechContexts) \cup acceptedKeywords

\* C19: a word of a keywords message that matches, case-insensitively after
\* trimming, something already in the session's hint set is not added to
\* the dynamic keywords, and a message whose words all match triggers no
\* recreation.
C19_NewOnlyIfAbsent ==
    [][ KeywordsStep =>
          /\ \A k \in MsgKeys(keywordsMsg') \cap PresentKeys :
                 Entries(dynamicKeywords', k) = Entries(dynamicKeywords, k)
          /\ MsgKeys(keywordsMsg') \subseteq PresentKeys => mainPc' = "read"
      ]_vars

\* C20: the configuration sent to a stream that is opened after keywords
\* were accepted carries a hint set that contains every accepted keyword
\* (a call that overlaps a keywords update still on its way to its own
\* createStream call is left out).
C20_HintsOnEveryStream ==
    [][ \A s \in DOMAIN streams' :
          ( /\ s \in DOMAIN streams /\ ~streams[s].handshaken /\ streams'[s].handshaken
            /\ (mainPc # "kwRecreate" \/ streamMu = "main") )
              => acceptedKeywords \subseteq HintKeys(streams'[s].hints)
      ]_vars

\* the session has stored its contexts and custom words (lines 185-191)
Configured == mainPc \notin {"handshake", "newClient"} /\ exitPath \notin {"handshake", "client"}

\* C21: what the session deduplicates against and builds its hint set from
\* is determined by its own configuration and keywords messages: the stored
\* contexts are the session's original contexts and the keys of the dynamic
\* keyword list are those of its custom words and of its accepted keywords.
C21_KeywordStateIsolated ==
    Configured =>
        /\ currentSpeechContexts = speechContexts
        /\ ExistingKeys(dynamicKeywords) = SessionKeys

\* the text the summarization task i produces from its snapshot
Output(i) == [task |-> i, snap |-> tasks[i].snap]

\* the task i stores a non-empty output in this step (lines 527-531, 752-756)
Succeeds(i) == tasks[i].pc = "gen" /\ tasks'[i].pc = "lock"

\* generateSummary of the task i returns an error or an empty text in this step
Fails(i) == tasks[i].pc = "gen" /\ tasks'[i].pc = Finished(i)

\* C22: the current summary is the output of the summarization that stored
\* its result last: it starts empty, every successful summarization replaces
\* it with its whole output, and nothing else, a failed or empty
\* summarization included, changes it.
C22_SummaryIsLastCompleted ==
    /\ [](tasks = <<>> => currentSummary = NoSummary)
    /\ [][ /\ \A i \in DOMAIN tasks : Succeeds(i) => currentSummary' = Output(i)
           /\ \A i \in DOMAIN tasks : Fails(i) => currentSummary' = currentSummary
           /\ currentSummary' # currentSummary
                 => \E i \in DOMAIN tasks : Succeeds(i) ]_vars

\* a summarization replaced the output of another one, which is still to be
\* written to the client
C22_Witness ==
    \E i, j \in DOMAIN tasks :
        /\ i # j
        /\ tasks[i].pc = "lock"
        /\ currentSummary = Output(j)

\* C23: a summarization whose transcript snapshot is older (shorter, the
\* transcript being append-only) than the snapshot of the current summary
\* never replaces it.
C23_NoOlderOverwrite ==
    [][ \A i \in DOMAIN tasks :
            (Succeeds(i) /\ currentSummary # NoSummary)
                => Len(tasks[i].snap) >= Len(currentSummary.snap) ]_vars

\* the end-of-session tasks that were spawned and whose deferred function
\* has not counted them out yet (lines 712-716)
InFlight == {i \in DOMAIN tasks : tasks[i].kind = "final" /\ tasks[i].pc \notin {"signal", "done"}}

\* C24: the in-flight counter is the number of end-of-session tasks started
\* and not finished, on every outcome of a task, and is never negative; a
\* task is counted in by the step that spawns it and counted out once.
C24_CounterIsInFlight ==
    /\ [](finalSummaryInProgress = Cardinality(InFlight) /\ finalSummaryInProgress >= 0)
    /\ [][ /\ Len(tasks') > Len(tasks) /\ tasks'[Len(tasks')].kind = "final"
                => finalSummaryInProgress' = finalSummaryInProgress + 1
           /\ finalSummaryInProgress' < finalSummaryInProgress
                => \E i \in DOMAIN tasks :
                      /\ tasks[i].pc = "dec" /\ tasks'[i].pc = "signal"
                      /\ finalSummaryInProgress' = finalSummaryInProgress - 1 ]_vars

\* one end-of-session task returned on the empty transcript and was counted
\* out, another one is writing its summary to the client and is counted
C24_Witness ==
    \E i, j \in DOMAIN tasks :
        /\ tasks[i].kind = "final" /\ tasks[i].snap = <<>> /\ tasks[i].pc = "done"
        /\ tasks[j].kind = "final" /\ tasks[j].pc = "send"
        /\ finalSummaryInProgress = 1

\* the end-of-session task i is running
FinalInProgress(i) ==
    i \in DOMAIN tasks /\ tasks[i].kind = "final" /\ tasks[i].pc # "done"

\* C25: the cancellation of the session does not abort an end-of-session
\* summarization: while the session is cancelled its generation can still
\* succeed and replace the current summary, and the task runs to its end.
C25_FinalSummaryNotAborted ==
    /\ [](\A i \in DOMAIN tasks :
              (ctxCancelled /\ tasks[i].kind = "final" /\ tasks[i].pc = "gen")
                  => ENABLED (TaskGenerate(i) /\ currentSummary' = Output(i)))
    /\ \A i \in 1..(MaxEndPromptsFinal + MaxResponsesDrain) :
          (ctxCancelled /\ FinalInProgress(i))
              ~> (i \in DOMAIN tasks /\ tasks[i].pc = "done")

\* the handler has returned and closed the connection; an end-of-session
\* task that was running when the client disconnected has replaced the
\* summary and is about to write it
C25_Witness ==
    /\ mainPc = "done" /\ ~connOpen
    /\ \E i \in tasksAtDisconnect :
          tasks[i].pc = "send" /\ currentSummary = Output(i)

\* the pump leaves the handling of a final result in this step
AppendStep == pumpPc = "append" /\ pumpPc' # "append"

\* C26: the pump never waits for a summarization: at a final result it can
\* always append and go on, whatever the state of the summarization tasks,
\* and when it goes on to the next result the summarization it spawned has
\* not run yet.
C26_PumpNeverWaitsForSummary ==
    /\ [](pumpPc = "append" => ENABLED PumpAppend)
    /\ [][ AppendStep =>
              /\ pumpPc' = IF NextResult(pumpResp, pumpIdx + 1) = 0 THEN "get" ELSE "write"
              /\ gcp => /\ Len(tasks') = Len(tasks) + 1
                        /\ tasks'[Len(tasks')] = NewTask("incr")
              /\ \A i \in DOMAIN tasks : tasks'[i] = tasks[i] ]_vars

\* the pump has appended a second final result while the summarization of
\* the first one has not taken its snapshot
C26_Witness ==
    /\ Len(tasks) = 2
    /\ tasks[1].pc = "snap"
    /\ Len(fullTranscription) > 2

\* the tasks that are between mu.Lock() and mu.Unlock() around a write to
\* the client connection (lines 385-387, 499-505, 544-548, 771-796)
WritersOnConn ==
    (IF pumpPc = "writing" THEN 1 ELSE 0)
    + (IF mu = "status" THEN 1 ELSE 0)
    + Cardinality({i \in DOMAIN tasks : tasks[i].pc \in {"write", "send"}})

\* C27: at most one task at a time writes to the client connection, and the
\* write deadline of the final summary exists only while the end-of-session
\* task that set it holds the writer lock.
C27_SingleWriter ==
    /\ WritersOnConn <= 1
    /\ (mu = "free") = (WritersOnConn = 0)
    /\ writeDeadline =>
          /\ mu = "task"
          /\ \E i \in DOMAIN tasks : tasks[i].kind = "final" /\ tasks[i].pc = "send"

\* an end-of-session task writes its summary under the deadline while the
\* pump, the status notifier and an incremental summarization wait for mu
C27_Witness ==
    /\ writeDeadline
    /\ pumpPc = "write"
    /\ statusPending > 0
    /\ \E i \in DOMAIN tasks : tasks[i].kind = "incr" /\ tasks[i].pc = "lock"

\* C28: the accesses to the transcript exclude each other: no summarization
\* task is at its read of the transcript (lines 512, 728) while the pump is
\* at its append (line 508).
C28_TranscriptExclusive ==
    ~(pumpPc = "append" /\ \E i \in DOMAIN tasks : tasks[i].pc = "snap")

\* the handler of the session takes a step (the step of another session
\* consumes a budget of the environment)
HandlerStep == mainPc' # mainPc /\ env.otherSessions' = env.otherSessions

\* C29: a session whose configuration message cannot be read or parsed is
\* closed at once: it is cancelled, has opened no stream and started no
\* pump, monitor, status notifier or summarization, and its steps leave
\* the stored contexts and the dynamic keyword list as they were.
C29_HandshakeFailureCloses ==
    /\ [](exitPath = "handshake" =>
              /\ mainPc \in {"return", "done"} /\ ctxCancelled
              /\ streams = <<>> /\ stream = Nil /\ pendingAudioChunks = <<>>
              /\ \A p \in Callers : csPc[p] = "idle"
              /\ pumpPc = "off" /\ monitorPc = "off"
              /\ tasks = <<>> /\ statusPending = 0 /\ clientLog = <<>>
              /\ customWords = <<>> /\ acceptedKeywords = {})
    /\ [][ (exitPath' = "handshake" /\ HandlerStep) =>
              /\ dynamicKeywords' = dynamicKeywords
              /\ currentSpeechContexts' = currentSpeechContexts ]_vars

\* the handler has returned after a failed handshake while the process
\* holds the contexts and keywords of another session
C29_Witness ==
    /\ exitPath = "handshake" /\ mainPc = "done"
    /\ dynamicKeywords # <<>> /\ currentSpeechContexts # <<>>

\* C30: whenever a stream is current the pending audio buffer is empty;
\* stated for the states where no createStream call holds streamMu and the
\* handler is between two messages, so that the frame buffered on a failed
\* send, just before the handler's own recreation, is left aside.
C30_BufferEmptyWhenCurrent ==
    (stream # Nil /\ streamMu = "free" /\ mainPc = "read")
        => pendingAudioChunks = <<>>

\* the monitor calls createStream(nil) in this step (line 574)
MonitorCalls == csPc["monitor"] = "idle" /\ csPc'["monitor"] = "enter"

\* the proactive recreation of the monitor has failed on a session that is
\* not cancelled (lines 574-581)
MonitorFailed == monitorPc = "recreate" /\ csPc["monitor"] = "retErr" /\ ~ctxCancelled

\* C31: the monitor calls createStream only when the age of the stream has
\* reached the ceiling, and then it does; the age is reset only by a
\* createStream that succeeds; after a failed recreation on a session that
\* is not cancelled the monitor calls createStream again, unless another
\* task's creation has reset the age or the session is cancelled meanwhile.
C31_MonitorRecreatesWhenOld ==
    /\ [][ /\ MonitorCalls => streamOld /\ ~csUpd'["monitor"].some
           /\ (streamOld /\ ~streamOld')
                 => \E p \in Callers : csPc[p] = "commit" /\ csPc'[p] = "retOk"
           /\ (monitorPc # "done" /\ monitorPc' = "done")
                 => ctxCancelled ]_vars
    /\ (monitorPc = "wait" /\ streamOld)
          ~> (csPc["monitor"] = "enter" \/ ~streamOld \/ ctxCancelled)
    /\ MonitorFailed ~> (csPc["monitor"] = "enter" \/ ~streamOld \/ ctxCancelled)

\* the proactive recreation has failed, the age is still over the ceiling
\* and the session goes on
C31_Witness == MonitorFailed /\ streamOld /\ mainPc = "read"

\* the handler reads a text message of the other kinds in this step
OtherStep == mainPc = "read" /\ env'.otherMsgs # env.otherMsgs

\* C32: a mid-session config message, a message of unknown type and a
\* message that cannot be parsed leave the slot, the streams and their
\* configuration, the hint set and the keyword list, the transcript, the
\* summary, the buffer, the in-flight counter and the tasks as they are, and
\* the handler is back at the read of the next message.
C32_OtherMessagesChangeNothing ==
    [][ OtherStep =>
           /\ mainPc' = "read" /\ exitPath' = exitPath /\ ctxCancelled' = ctxCancelled
           /\ stream' = stream /\ streams' = streams /\ streamOld' = streamOld
           /\ csPc' = csPc /\ csUpd' = csUpd
           /\ speechContexts' = speechContexts /\ customWords' = customWords
           /\ currentSpeechContexts' = currentSpeechContexts
           /\ dynamicKeywords' = dynamicKeywords /\ acceptedKeywords' = acceptedKeywords
           /\ fullTranscription' = fullTranscription
           /\ currentSummary' = currentSummary
           /\ pendingAudioChunks' = pendingAudioChunks
           /\ finalSummaryInProgress' = finalSummaryInProgress /\ tasks' = tasks
      ]_vars

\* such a message has been read in a session that has a current stream
\* with accepted keywords, a transcript and an end-of-session summarization
\* in progress
C32_Witness ==
    /\ env.otherMsgs = 0 /\ mainPc = "read"
    /\ stream # Nil /\ acceptedKeywords # {}
    /\ fullTranscription # <<>>
    /\ finalSummaryInProgress > 0

\* the pump calls createStream(nil) in this step, after an end of stream or
\* a read error on the stream it holds (lines 438-441, 453-461)
PumpCalls == pumpPc = "recv" /\ pumpPc' = "recreate"

\* C33: the pump does not call createStream, which closes and replaces the
\* stream of the slot, for an end of stream or a read error of a stream
\* that another task's recreation has already replaced in the slot.
C33_SupersededStreamIgnored ==
    [][ PumpCalls => stream \in {pumpStream, Nil} ]_vars

RECURSIVE SentUpTo(_)
\* the frames sent upstream on the streams 1..n, in the order of the sends:
\* a stream receives frames only between its creation and the CloseSend
\* that precedes the creation of the next one
SentUpTo(n) == IF n = 0 THEN <<>> ELSE SentUpTo(n - 1) \o streams[n].sent

\* C34: the frames reach the recognition service in the order the client
\* sent them, each at most once, over all the streams of the session.
C34_FramesInClientOrder == InSubmissionOrder(SentUpTo(Len(streams)))

\* C35: when the drain wait ends by the completion signal, before its
\* timeout, no end-of-session summarization task is running any more and
\* the in-flight counter is zero.
C35_DrainEndsWithNoTask ==
    (drainWaited = "signal" /\ mainPc = "cancel")
        => finalSummaryInProgress = 0 /\ InFlight = {}

\* the drain wait ends by its timeout in this step (lines 609-611)
DrainTimesOut == mainPc = "drainWait" /\ drainWaited' = "timeout"

\* C36: the drain wait never runs to its timeout after the last
\* end-of-session task has finished: when the timeout fires, a task is
\* still running, so no completion signal was lost.
C36_SignalNeverLost ==
    [][ DrainTimesOut => RunningFinalTasks # {} ]_vars

\* the summary messages written to the client, in order
SummaryMessages == SelectSeq(clientLog, LAMBDA m : m.type = "summary")

RECURSIVE MessageTexts(_)
\* the texts of the final messages of ms, each followed by a space
MessageTexts(ms) ==
    IF ms = <<>> THEN <<>>
    ELSE MessageTexts(SubSeq(ms, 1, Len(ms) - 1))
           \o (IF ms[Len(ms)].final THEN ms[Len(ms)].text \o <<" ">> ELSE <<>>)

\* the write of a transcription message fails in this step (lines 500-504)
WriteFails == pumpPc = "writing" /\ pumpPc' = "done"

\* C38: the transcript is made of the texts of the final transcription
\* messages written to the client (the last one excepted while the pump is
\* between its write and its append); a failed write appends nothing and
\* starts no summarization, and the pump has returned: it appends nothing
\* and starts nothing afterwards.
C38_TranscriptOnlyWritten ==
    /\ [](fullTranscription = MessageTexts(SubSeq(Transcriptions, 1, Processed)))
    /\ [][ (WriteFails \/ pumpPc = "done") =>
              /\ pumpPc' = "done"
              /\ fullTranscription' = fullTranscription
              /\ Len(tasks') = Len(tasks)
              /\ Transcriptions' = Transcriptions ]_vars

\* the write of a second final result has failed after the first one was
\* appended and summarized
C38_Witness ==
    /\ TranscriptionWriteFailed
    /\ pumpResp.results[pumpIdx].final
    /\ fullTranscription # <<>> /\ tasks # <<>>
    /\ Len(readLog) = 2

RECURSIVE Occurrences(_, _)
\* how many times the phrase p occurs in the speech contexts ctxs
Occurrences(ctxs, p) ==
    IF ctxs = <<>> THEN 0
    ELSE Cardinality({j \in DOMAIN Head(ctxs).phrases : Head(ctxs).phrases[j] = p})
           + Occurrences(Tail(ctxs), p)

\* C39: no phrase occurs more than once in the hint set a stream was
\* opened with: a static custom word of the handshake is in its original
\* group only, not in the dynamic-keywords group as well.
C39_NoPhraseTwice ==
    \A i \in DOMAIN streams :
        \A g \in DOMAIN streams[i].hints :
            \A j \in DOMAIN streams[i].hints[g].phrases :
                Occurrences(streams[i].hints, streams[i].hints[g].phrases[j]) = 1

\* a session that buffers a frame while its slot is empty after a failed
\* recreation; every task of the session keeps running and the clock
\* advances (time.Since(streamStartTime) grows until the next commit)
EnvRecover == [NoEnv EXCEPT !.chunks = MaxChunksRecover, !.faults = MaxFaultsBuffer,
                            !.ages = MaxAges, !.keywordMsgs = MaxKeywordMsgs,
                            !.keywordChoices = {<<wk>>}]

InitRecover == InitWith(EnvRecover)

FairRecover ==
    /\ WF_vars(SessionStart \/ Ingestion \/ Keywords \/ MainCancel \/ MainTeardown
                 \/ MainReturn)
    /\ WF_vars(CreateStreamSteps)
    /\ WF_vars(PumpRecv)
    /\ WF_vars(MonitorTick \/ MonitorRecreated \/ MonitorDone)
    /\ WF_vars(TimePasses)

SpecRecover == InitRecover /\ [][Next]_vars /\ FairRecover

\* the slot is empty while the handler waits for a message that will not
\* come; the upstream accepts every new stream from now on, and the age
\* of the last stream has reached or will reach maxStreamDuration
EmptyAndUpstreamBack ==
    /\ mainPc = "read" /\ stream = Nil
    /\ env.chunks = 0 /\ env.keywordMsgs = 0
    /\ env.faults = 0 /\ Len(streams) < MaxStreams
    /\ streamOld \/ env.ages > 0

\* a createStream call stores its new stream in this step
Commits == \E p \in Callers : csPc[p] = "commit" /\ csPc'[p] = "retOk"

\* C40: when the slot is empty in an Active session, the client sends
\* nothing more and the upstream accepts new streams, a stream becomes
\* current again with the buffer emptied (unless the client leaves first),
\* and the commit that makes it current sends it every buffered frame.
C40_EmptySlotRecovers ==
    /\ EmptyAndUpstreamBack ~> ((stream # Nil /\ pendingAudioChunks = <<>>)
                                  \/ mainPc # "read")
    /\ [][ (Commits /\ env.faults = 0 /\ ~ctxCancelled) =>
              /\ stream' # Nil /\ pendingAudioChunks' = <<>>
              /\ streams'[stream'].sent = pendingAudioChunks ]_vars

\* the monitor has made a stream current again and replayed the frame
\* buffered while the slot was empty; the pump never recreated and never
\* failed, and the client has nothing more to send
C40_Witness ==
    /\ mainPc = "read" /\ monitorPc = "recreate" /\ csPc["monitor"] = "retOk"
    /\ stream = csNew["monitor"] /\ streams[stream].sent = <<1>>
    /\ pendingAudioChunks = <<>>
    /\ pumpPc = "sleep"
    /\ env.faults = 0 /\ env.chunks = 0 /\ env.keywordMsgs = 0

====
